---------------------------- MODULE Spec2Model ----------------------------
(***************************************************************************)
(* A model of syncr (rsync-style delta transfer): the weak rolling         *)
(* checksum, the strong block checksum, the three-level match index and    *)
(* the framed connection between the updater and the source.               *)
(*                                                                         *)
(* Conventions.  Rust slices are 0-indexed and TLA+ sequences 1-indexed:   *)
(* the byte buffer[i] of the source is buffer[i + 1] here.  A u32 is kept  *)
(* as its two 16-bit halves [hi, lo], so that every value of the type is   *)
(* representable and 32-bit arithmetic is done limb by limb.  An           *)
(* Option<T> is a sequence: << >> is None and << v >> is Some(v).          *)
(***************************************************************************)
EXTENDS Integers, Sequences, FiniteSets, TLC

VARIABLES
    \* ---- the checksum streams (weak_checksum.rs, strong_checksum.rs)
    data,          \* the byte buffer handed to a stream constructor
    block_size,    \* WeakCheckSum.block_size / StrongCheckSum.block_size
    modulus,       \* WeakCheckSum.modulus
    stream,        \* which stream was constructed over data
    weak_iter,     \* the WeakCheckSumRollingIterator
    non_overlapping_iter, \* StepBy<rolling> (chained with the tail's rolling iterator)
    strong_iter,   \* the StrongCheckSumIterator
    emitted,       \* the items next() has returned so far, in order
    nones,         \* how many times next() has returned None
    \* ---- the match index (multisearch.rs, bin/syncrd.rs ConnectionState)
    weak_checksums, \* ConnectionState.weak_checksums: the sequence the index is compiled from
    hash_table,    \* ConnectionState.hash_table: bucket -> weak checksum -> offsets
    compiled,      \* whether compile_hash_table has run
    last_hash,     \* the last call of weak_hash: its argument, product and result
    \* ---- one connection between the updater (main.rs) and the source
    \* (bin/syncrd.rs); each variable is a function of the endpoint
    readable,      \* whether std::fs::read of the endpoint's file succeeds
    session,       \* where SingleConnection::run of the endpoint is
    connection,    \* "running", or how Connection::run of the endpoint ended
    outbound,      \* the outbound queue: session -> Connection
    inbound,       \* the inbound queue: Connection -> session
    wire,          \* the bytes the endpoint has written that its peer has not read yet
    buffer,        \* Connection.buffer, the read buffer
    enqueued,      \* every message the session has put on its outbound queue, in order
    handed,        \* every message the Connection has put on the inbound queue, in order
    \* ---- the sessions (SingleConnection of main.rs and of bin/syncrd.rs)
    disk,          \* per endpoint: what std::fs::read gives for the file at path "f"
    state,         \* per endpoint: its ConnectionState
    \* ---- the source daemon (main of bin/syncrd.rs)
    main_loop,     \* where the loop of main is: "join" on the two tasks of the
                   \* connection it has accepted, or back at "accept"
    accepted,      \* how many connections listener.accept() has returned so far
    \* ---- the Matcher (multisearch.rs)
    matcher,       \* Matcher.hash_table and Matcher.strong_hashes
    found          \* the last call of find_matches: its argument, what it returned
                   \* and whether the Matcher had been compiled

checksumVars == <<data, block_size, modulus, stream, weak_iter,
                  non_overlapping_iter, strong_iter, emitted, nones>>

indexVars == <<weak_checksums, hash_table, compiled, last_hash>>

netVars == <<readable, session, connection, outbound, inbound, wire, buffer,
             enqueued, handed>>

sessionVars == <<disk, state>>

daemonVars == <<main_loop, accepted>>

matcherVars == <<matcher, found>>

vars == <<checksumVars, indexVars, netVars, sessionVars, daemonVars, matcherVars>>

\* the variables an action of one part of the program leaves alone
otherThanChecksum == <<indexVars, netVars, sessionVars, daemonVars, matcherVars>>
otherThanIndex == <<checksumVars, netVars, sessionVars, daemonVars, matcherVars>>
otherThanNet == <<checksumVars, indexVars, sessionVars, daemonVars, matcherVars>>
otherThanMatcher == <<checksumVars, indexVars, netVars, sessionVars, daemonVars>>

-----------------------------------------------------------------------------
(* Bounds of the model *)

MaxLen == 5          \* longest byte buffer
MaxBlock == 3        \* largest block size
SmallModulus == 7    \* a small modulus, so that the sums wrap on short buffers
MaxNones == 2        \* next() is called at most this often after the stream's end
MaxBlocks == 3       \* longest sequence of weak checksums an index is compiled from
MaxBody == 1         \* most elements in the payload of a message
MaxFile == 3         \* longest file of a session
MaxPeerFile == 2     \* longest file of the peer of the source session
MaxSessionBlock == 2 \* largest block size of a session
MaxUpdaterReceived == 2 \* most messages the updater session receives
MaxSourceReceived == 4  \* most messages the source session receives

(* Program constants *)

DefaultModulus == 65536      \* 1 << 16
TwoTo16 == 65536             \* the shift of the composite value: b << 16
WeakHashMultiplier == 62171  \* the multiplier of weak_hash
QueueCapacity == 100         \* tokio::sync::mpsc::channel(100)

ByteVals == {0, 1, 255}
Moduli == {SmallModulus, DefaultModulus}
BlockSizes == 1..MaxBlock

RECURSIVE SeqsUpTo(_, _)
SeqsUpTo(S, n) ==
    IF n = 0 THEN {<< >>}
    ELSE LET shorter == SeqsUpTo(S, n - 1)
         IN  shorter \cup {Append(s, x) : s \in {t \in shorter : Len(t) = n - 1}, x \in S}

Buffers == SeqsUpTo(ByteVals, MaxLen)

Min(x, y) == IF x <= y THEN x ELSE y

\* &buffer[from..to] (0-indexed, to exclusive)
Slice(buf, from, to) == SubSeq(buf, from + 1, to)

-----------------------------------------------------------------------------
(* Integer arithmetic of the source *)

\* isize::rem_euclid with a positive modulus: the residue in [0, m)
RemTruncated(x, m) == IF x >= 0 THEN x % m ELSE 0 - ((0 - x) % m)
rem_euclid(x, m) == x % m

\* `x as u32` of a (64-bit) isize: the low 32 bits, as two 16-bit halves
AsU32(x) == [hi |-> (x \div TwoTo16) % TwoTo16, lo |-> x % TwoTo16]

-----------------------------------------------------------------------------
(* WeakCheckSum: the closed forms *)

RECURSIVE a_loop(_, _, _, _, _)
a_loop(m, i, right, buf, sum) ==
    IF i > right THEN sum
    ELSE a_loop(m, i + 1, right, buf, (sum + buf[i + 1]) % m)

a_expanded(m, left, right, buf) ==
    IF right >= Len(buf) THEN 0
    ELSE a_loop(m, left, right, buf, 0) % m

RECURSIVE b_loop(_, _, _, _, _)
b_loop(m, i, right, buf, sum) ==
    IF i > right THEN sum
    ELSE b_loop(m, i + 1, right, buf, (sum + buf[i + 1] * (right - i + 1)) % m)

b_expanded(m, left, right, buf) ==
    IF right >= Len(buf) THEN 0
    ELSE b_loop(m, left, right, buf, 0) % m

-----------------------------------------------------------------------------
(* WeakCheckSum::checksums and WeakCheckSumRollingIterator::next *)

RollingIterator(buf, m, l, a, b, ended) ==
    [buffer |-> buf, modulus |-> m, previous_k |-> 0, previous_l |-> l,
     a_k_l |-> a, b_k_l |-> b, ended |-> ended]

WeakCheckSum_checksums_no_short_case(m, bs, buf) ==
    IF Len(buf) = 0
    THEN RollingIterator(buf, m, 0, 0, 0, TRUE)
    ELSE RollingIterator(buf, m, bs - 1,
                         a_expanded(m, 0, bs - 1, buf),
                         b_expanded(m, 0, bs - 1, buf), FALSE)
WeakCheckSum_checksums(m, bs, buf) ==
    IF Len(buf) = 0
    THEN RollingIterator(buf, m, 0, 0, 0, TRUE)
    ELSE IF Len(buf) < bs
    THEN RollingIterator(buf, m, Len(buf) - 1,
                         a_expanded(m, 0, Len(buf) - 1, buf),
                         b_expanded(m, 0, Len(buf) - 1, buf), FALSE)
    ELSE RollingIterator(buf, m, bs - 1,
                         a_expanded(m, 0, bs - 1, buf),
                         b_expanded(m, 0, bs - 1, buf), FALSE)

\* a(k+1, l+1) of the recurrence
new_a_k_l(it) ==
    rem_euclid(it.a_k_l + it.buffer[it.previous_l + 2] - it.buffer[it.previous_k + 1],
               it.modulus)

\* b(k+1, l+1) of the recurrence
new_b_k_l_from_old_a(it) ==
    rem_euclid(it.b_k_l + it.a_k_l
               - (it.previous_l - it.previous_k + 1) * it.buffer[it.previous_k + 1],
               it.modulus)
new_b_k_l(it) ==
    rem_euclid(it.b_k_l + new_a_k_l(it)
               - (it.previous_l - it.previous_k + 1) * it.buffer[it.previous_k + 1],
               it.modulus)

\* self.a_k_l + (self.b_k_l << 16), then `as u32`
composite(it) == AsU32(it.a_k_l + it.b_k_l * TwoTo16)

\* next(): the iterator afterwards and the item returned
WeakCheckSumRollingIterator_next(it) ==
    IF it.ended
    THEN [it |-> it, item |-> << >>]
    ELSE IF it.previous_l + 1 >= Len(it.buffer) \/ it.previous_k >= Len(it.buffer)
    THEN [it |-> [it EXCEPT !.ended = TRUE], item |-> <<composite(it)>>]
    ELSE [it |-> [it EXCEPT !.previous_k = @ + 1,
                            !.previous_l = @ + 1,
                            !.a_k_l = rem_euclid(new_a_k_l(it), it.modulus),
                            !.b_k_l = rem_euclid(new_b_k_l(it), it.modulus)],
          item |-> <<composite(it)>>]

-----------------------------------------------------------------------------
(* WeakCheckSum::checksums_non_overlapping:                                *)
(*   self.checksums(data).step_by(block_size)                              *)
(*       [.chain(self.checksums(last_chunk)) when len % block_size != 0]   *)

\* Iterator::nth(n) of the rolling iterator: n + 1 calls of next(), stopping at None
RECURSIVE nth(_, _)
nth(it, n) ==
    LET r == WeakCheckSumRollingIterator_next(it)
    IN  IF r.item = << >> \/ n = 0 THEN r ELSE nth(r.it, n - 1)

\* StepBy::next
step_by_next(sb) ==
    LET r == IF sb.first_take
             THEN WeakCheckSumRollingIterator_next(sb.iter)
             ELSE nth(sb.iter, sb.step)
    IN  [sb |-> [sb EXCEPT !.iter = r.it, !.first_take = FALSE], item |-> r.item]

last_chunk_start_index_one_block_back(len, bs) == IF len >= bs THEN len - bs ELSE 0
last_chunk_start_index(len, bs) == len - (len % bs)

WeakCheckSum_checksums_non_overlapping(m, bs, buf) ==
    LET iterator == [iter |-> WeakCheckSum_checksums(m, bs, buf),
                     step |-> bs - 1, first_take |-> TRUE]
        start == last_chunk_start_index(Len(buf), bs)
        chained == Len(buf) % bs # 0
        last_chunk == IF chained THEN Slice(buf, start, Len(buf)) ELSE << >>
    IN  [a |-> iterator, a_live |-> TRUE, chained |-> chained,
         b |-> WeakCheckSum_checksums(m, bs, last_chunk)]

\* Chain::next (StepBy::next alone when nothing was chained)
non_overlapping_next(ch) ==
    LET ra == step_by_next(ch.a)
    IN  IF ch.a_live /\ ra.item # << >>
        THEN [ch |-> [ch EXCEPT !.a = ra.sb], item |-> ra.item]
        ELSE IF ~ch.chained
        THEN [ch |-> [ch EXCEPT !.a = ra.sb], item |-> << >>]
        ELSE LET rb == WeakCheckSumRollingIterator_next(ch.b)
             IN  [ch |-> [ch EXCEPT !.a = IF ch.a_live THEN ra.sb ELSE @,
                                    !.a_live = FALSE, !.b = rb.it],
                  item |-> rb.item]

-----------------------------------------------------------------------------
(* StrongCheckSum *)

\* hash(): the MD4 digest of the bytes, as an ideal digest: equal on equal
\* blocks, distinct on distinct blocks
hash(bytes) == [md4 |-> bytes]

StrongCheckSumIterator(buf, right, shift) ==
    [data |-> buf, left_index |-> 0, right_index |-> right, shift |-> shift]

StrongCheckSum_checksums(bs, buf) ==
    IF Len(buf) < bs
    THEN StrongCheckSumIterator(buf, Len(buf), 1)
    ELSE StrongCheckSumIterator(buf, bs, 1)

StrongCheckSum_checksums_non_overlapping(bs, buf) ==
    StrongCheckSumIterator(buf, Min(Len(buf), bs), Min(Len(buf), bs))

StrongCheckSumIterator_next(it) ==
    IF it.right_index >= Len(it.data)
    THEN [it |-> it, item |-> << >>]
    ELSE [it |-> [it EXCEPT !.left_index = @ + it.shift,
                            !.right_index = @ + it.shift],
          item |-> <<hash(Slice(it.data, it.left_index, it.right_index))>>]

-----------------------------------------------------------------------------
(* weak_hash: 32-bit unsigned arithmetic on 16-bit halves *)

RECURSIVE BitXor(_, _)
BitXor(x, y) ==
    IF x = 0 THEN y
    ELSE IF y = 0 THEN x
    ELSE ((x + y) % 2) + 2 * BitXor(x \div 2, y \div 2)

\* the exact product x * y of a 16-bit x, as [hi, lo] = hi * 2^16 + lo (hi unbounded)
WideMul(x, y) ==
    LET yl == y % 256
        yh == y \div 256
        t  == x * yl + ((x * yh) % 256) * 256
    IN  [hi |-> t \div TwoTo16 + (x * yh) \div 256, lo |-> t % TwoTo16]

\* the u32 multiplication: the low 32 bits, and whether the product left the type
\* (a panic in a build with overflow checks, a silent wrap without)
MulU32(x, y) ==
    LET p == WideMul(x, y)
    IN  [hi |-> p.hi % TwoTo16, lo |-> p.lo, overflow |-> p.hi >= TwoTo16]

\* (v & 0xffff) * 62171
weak_hash_product(v) == MulU32(v.lo, WeakHashMultiplier)

\* ((v >> 16) ^ ((v & 0xffff) * 62171)) as u16
weak_hash_halves_swapped(v) == BitXor(v.lo, MulU32(v.hi, WeakHashMultiplier).lo)
weak_hash(v) == BitXor(v.hi, weak_hash_product(v).lo)

-----------------------------------------------------------------------------
(* SingleConnection::compile_hash_table (bin/syncrd.rs) *)

EmptyMap == [k \in {} |-> << >>]

\* map with key k set to v
Insert(map, k, v) == [x \in DOMAIN map \cup {k} |-> IF x = k THEN v ELSE map[x]]

\* one iteration of the loop: the entry API on the bucket, then on the weak checksum
compile_entry_overwriting(table, checksum, byte_offset) ==
    Insert(table, weak_hash(checksum), Insert(EmptyMap, checksum, <<byte_offset>>))
compile_entry(table, checksum, byte_offset) ==
    LET checksum_hash == weak_hash(checksum)
    IN  IF checksum_hash \in DOMAIN table
        THEN LET m == table[checksum_hash]
             IN  Insert(table, checksum_hash,
                        IF checksum \in DOMAIN m
                        THEN Insert(m, checksum, Append(m[checksum], byte_offset))
                        ELSE Insert(m, checksum, <<byte_offset>>))
        ELSE Insert(table, checksum_hash, Insert(EmptyMap, checksum, <<byte_offset>>))

RECURSIVE compile_loop(_, _, _, _)
compile_loop(checksums, bs, i, table) ==
    IF i > Len(checksums) THEN table
    ELSE compile_loop(checksums, bs, i + 1,
                      compile_entry(table, checksums[i], (i - 1) * bs))

compile_hash_table(checksums, bs) == compile_loop(checksums, bs, 1, EmptyMap)

\* the two-level lookup of build_strong_hash_request: the bucket first, then
\* the weak checksum; the candidate list, empty when either lookup misses
probe(table, weak) ==
    IF weak_hash(weak) \notin DOMAIN table THEN << >>
    ELSE IF weak \notin DOMAIN table[weak_hash(weak)] THEN << >>
    ELSE table[weak_hash(weak)][weak]

-----------------------------------------------------------------------------
(* impl Checksums for CheckSum (lib.rs): the weak stream zipped with the   *)
(* strong stream                                                           *)

\* weak_iter.zip(strong_iter) of checksums
CheckSum_checksums(m, bs, buf) ==
    [a |-> WeakCheckSum_checksums(m, bs, buf), b |-> StrongCheckSum_checksums(bs, buf)]

\* Zip::next: a.next()?, then b.next()?; an item of a is dropped when b has ended
Zip_next(z) ==
    LET ra == WeakCheckSumRollingIterator_next(z.a)
        rb == StrongCheckSumIterator_next(z.b)
    IN  IF ra.item = << >>
        THEN [z |-> [z EXCEPT !.a = ra.it], item |-> << >>]
        ELSE IF rb.item = << >>
        THEN [z |-> [z EXCEPT !.a = ra.it, !.b = rb.it], item |-> << >>]
        ELSE [z |-> [z EXCEPT !.a = ra.it, !.b = rb.it],
              item |-> << <<ra.item[1], rb.item[1]>> >>]

\* Iterator::collect of the zipped stream
RECURSIVE collect_zip(_)
collect_zip(z) ==
    LET r == Zip_next(z)
    IN  IF r.item = << >> THEN << >> ELSE <<r.item[1]>> \o collect_zip(r.z)

\* weak_iter.zip(strong_iter) of checksums_non_overlapping
CheckSum_checksums_non_overlapping(m, bs, buf) ==
    [a |-> WeakCheckSum_checksums_non_overlapping(m, bs, buf),
     b |-> StrongCheckSum_checksums_non_overlapping(bs, buf)]

\* Zip::next on the non-overlapping streams
Zip_next_non_overlapping(z) ==
    LET ra == non_overlapping_next(z.a)
        rb == StrongCheckSumIterator_next(z.b)
    IN  IF ra.item = << >>
        THEN [z |-> [z EXCEPT !.a = ra.ch], item |-> << >>]
        ELSE IF rb.item = << >>
        THEN [z |-> [z EXCEPT !.a = ra.ch, !.b = rb.it], item |-> << >>]
        ELSE [z |-> [z EXCEPT !.a = ra.ch, !.b = rb.it],
              item |-> << <<ra.item[1], rb.item[1]>> >>]

RECURSIVE collect_zip_non_overlapping(_)
collect_zip_non_overlapping(z) ==
    LET r == Zip_next_non_overlapping(z)
    IN  IF r.item = << >> THEN << >>
        ELSE <<r.item[1]>> \o collect_zip_non_overlapping(r.z)

-----------------------------------------------------------------------------
(* Matcher (multisearch.rs) *)

\* the loop of compile: the entry API on the 16-bit hash, then on the weak
\* checksum, with the position in the stream as the offset
RECURSIVE Matcher_compile_loop(_, _, _)
Matcher_compile_loop(checksums, i, table) ==
    IF i > Len(checksums) THEN table
    ELSE Matcher_compile_loop(checksums, i + 1,
                              compile_entry(table, checksums[i][1], i - 1))

Matcher_compile(m, bs, buf) ==
    LET checksums == collect_zip(CheckSum_checksums(m, bs, buf))
    IN  [hash_table |-> Matcher_compile_loop(checksums, 1, EmptyMap),
         strong_hashes |-> [i \in DOMAIN checksums |-> checksums[i][2]],
         compiled |-> TRUE]

\* the inner loop of find_matches over the offsets listed under the weak
\* checksum: the first whose strong hash equals, or a panic on an offset
\* outside strong_hashes
first_strong_match_unchecked(strong_hashes, offsets, k, strong) ==
    [offset |-> <<offsets[1]>>, panicked |-> FALSE]
RECURSIVE first_strong_match(_, _, _, _)
first_strong_match(strong_hashes, offsets, k, strong) ==
    IF k > Len(offsets) THEN [offset |-> << >>, panicked |-> FALSE]
    ELSE IF offsets[k] >= Len(strong_hashes) THEN [offset |-> << >>, panicked |-> TRUE]
    ELSE IF strong_hashes[offsets[k] + 1] = strong
    THEN [offset |-> <<offsets[k]>>, panicked |-> FALSE]
    ELSE first_strong_match(strong_hashes, offsets, k + 1, strong)

\* the loop of find_matches over the incoming pairs
RECURSIVE find_matches_loop(_, _, _, _)
find_matches_loop(mt, hashes_by_block, i, matches) ==
    IF i > Len(hashes_by_block) THEN [matches |-> matches, panicked |-> FALSE]
    ELSE LET weak == hashes_by_block[i][1]
             strong == hashes_by_block[i][2]
             weak_16_bit_hash == weak_hash(weak)
         IN  IF weak_16_bit_hash \notin DOMAIN mt.hash_table
             THEN find_matches_loop(mt, hashes_by_block, i + 1, matches)
             ELSE IF weak \notin DOMAIN mt.hash_table[weak_16_bit_hash]
             THEN find_matches_loop(mt, hashes_by_block, i + 1, matches)
             ELSE LET r == first_strong_match(mt.strong_hashes,
                                              mt.hash_table[weak_16_bit_hash][weak],
                                              1, strong)
                  IN  IF r.panicked THEN [matches |-> matches, panicked |-> TRUE]
                      ELSE find_matches_loop(mt, hashes_by_block, i + 1,
                                             IF r.offset = << >> THEN matches
                                             ELSE Append(matches, <<i - 1, r.offset[1]>>))

find_matches(mt, hashes_by_block) == find_matches_loop(mt, hashes_by_block, 1, << >>)

-----------------------------------------------------------------------------
(* The values of the state before anything has run *)

U32(hi, lo) == [hi |-> hi, lo |-> lo]

NoWeakIter == WeakCheckSum_checksums(DefaultModulus, 1, << >>)
NoNonOverlappingIter == WeakCheckSum_checksums_non_overlapping(DefaultModulus, 1, << >>)
NoStrongIter == StrongCheckSum_checksums(1, << >>)

\* the two endpoints of a connection
Ends == {"updater", "source"}
Peer(e) == IF e = "updater" THEN "source" ELSE "updater"

\* Matcher::new() and no call of find_matches yet
NoMatcher == [hash_table |-> EmptyMap, strong_hashes |-> << >>, compiled |-> FALSE]
NoFind == [hashes_by_block |-> << >>, matches |-> << >>, panicked |-> FALSE,
           called |-> FALSE, compiled |-> FALSE]

MatcherIdle ==
    /\ matcher = NoMatcher
    /\ found = NoFind

NetIdle ==
    /\ readable = [e \in Ends |-> TRUE]
    /\ session = [e \in Ends |-> "ok"]
    /\ connection = [e \in Ends |-> "ok"]
    /\ outbound = [e \in Ends |-> << >>]
    /\ inbound = [e \in Ends |-> << >>]
    /\ wire = [e \in Ends |-> << >>]
    /\ buffer = [e \in Ends |-> << >>]
    /\ enqueued = [e \in Ends |-> << >>]
    /\ handed = [e \in Ends |-> << >>]
    /\ main_loop = "accept"
    /\ accepted = 0
    /\ MatcherIdle

\* ConnectionState as main constructs it (updater) and ConnectionState::default()
\* (source); "" is the empty path, which names no file
UpdaterState(remote_file) ==
    [weak_checksums |-> << >>, file_path |-> "f", remote_file_path |-> remote_file,
     own_data |-> << >>]

SourceState ==
    [weak_checksums |-> << >>, file_path |-> "", remote_weak_checksums |-> << >>,
     hash_table |-> EmptyMap, own_data |-> << >>]

SessionIdle ==
    /\ disk = [e \in Ends |-> << >>]
    /\ state = [e \in Ends |-> IF e = "updater" THEN UpdaterState("f") ELSE SourceState]

ChecksumIdle ==
    /\ stream = "none"
    /\ weak_iter = NoWeakIter
    /\ non_overlapping_iter = NoNonOverlappingIter
    /\ strong_iter = NoStrongIter
    /\ emitted = << >>
    /\ nones = 0

NoHash == [v |-> U32(0, 0), product |-> MulU32(0, 0), h |-> 0, called |-> FALSE]

IndexIdle ==
    /\ weak_checksums = << >>
    /\ hash_table = EmptyMap
    /\ compiled = FALSE
    /\ last_hash = NoHash

-----------------------------------------------------------------------------
(* The streams as a state machine: a stream is constructed over the buf *)
(* and next() is called on it until and beyond its end.                    *)

InitChecksum ==
    /\ data \in Buffers
    /\ block_size \in BlockSizes
    /\ modulus \in Moduli
    /\ ChecksumIdle
    /\ IndexIdle
    /\ NetIdle
    /\ SessionIdle

Record(item) ==
    /\ emitted' = emitted \o item
    /\ nones' = IF item = << >> THEN nones + 1 ELSE nones

WeakChecksums ==
    /\ stream = "none"
    /\ stream' = "weak_rolling"
    /\ weak_iter' = WeakCheckSum_checksums(modulus, block_size, data)
    /\ UNCHANGED otherThanChecksum
    /\ UNCHANGED <<data, block_size, modulus, non_overlapping_iter, strong_iter,
                   emitted, nones>>

WeakNext ==
    /\ stream = "weak_rolling"
    /\ nones < MaxNones
    /\ LET r == WeakCheckSumRollingIterator_next(weak_iter)
       IN  /\ weak_iter' = r.it
           /\ Record(r.item)
    /\ UNCHANGED otherThanChecksum
    /\ UNCHANGED <<data, block_size, modulus, stream, non_overlapping_iter, strong_iter>>

WeakChecksumsNonOverlapping ==
    /\ stream = "none"
    /\ stream' = "weak_non_overlapping"
    /\ non_overlapping_iter' =
           WeakCheckSum_checksums_non_overlapping(modulus, block_size, data)
    /\ UNCHANGED otherThanChecksum
    /\ UNCHANGED <<data, block_size, modulus, weak_iter, strong_iter, emitted, nones>>

WeakNonOverlappingNext ==
    /\ stream = "weak_non_overlapping"
    /\ nones < MaxNones
    /\ LET r == non_overlapping_next(non_overlapping_iter)
       IN  /\ non_overlapping_iter' = r.ch
           /\ Record(r.item)
    /\ UNCHANGED otherThanChecksum
    /\ UNCHANGED <<data, block_size, modulus, stream, weak_iter, strong_iter>>

StrongChecksums ==
    /\ stream = "none"
    /\ stream' = "strong_rolling"
    /\ strong_iter' = StrongCheckSum_checksums(block_size, data)
    /\ UNCHANGED otherThanChecksum
    /\ UNCHANGED <<data, block_size, modulus, weak_iter, non_overlapping_iter,
                   emitted, nones>>

StrongChecksumsNonOverlapping ==
    /\ stream = "none"
    /\ stream' = "strong_non_overlapping"
    /\ strong_iter' = StrongCheckSum_checksums_non_overlapping(block_size, data)
    /\ UNCHANGED otherThanChecksum
    /\ UNCHANGED <<data, block_size, modulus, weak_iter, non_overlapping_iter,
                   emitted, nones>>

StrongNext ==
    /\ stream \in {"strong_rolling", "strong_non_overlapping"}
    /\ nones < MaxNones
    /\ LET r == StrongCheckSumIterator_next(strong_iter)
       IN  /\ strong_iter' = r.it
           /\ Record(r.item)
    /\ UNCHANGED otherThanChecksum
    /\ UNCHANGED <<data, block_size, modulus, stream, weak_iter, non_overlapping_iter>>

NextChecksum ==
    \/ WeakChecksums
    \/ WeakNext
    \/ WeakChecksumsNonOverlapping
    \/ WeakNonOverlappingNext
    \/ StrongChecksums
    \/ StrongChecksumsNonOverlapping
    \/ StrongNext

SpecChecksum == InitChecksum /\ [][NextChecksum]_vars

-----------------------------------------------------------------------------
(* The index as a state machine: weak_hash is called on a value, and the   *)
(* table is compiled from a sequence of weak checksums.                    *)

\* arguments of weak_hash: the extremes of both halves
HashInputs == {U32(h, l) : h \in {0, 1, 62171, 65535}, l \in {0, 1, 255, 65534, 65535}}

\* weak checksums of blocks: U32(0, 0) and U32(62171, 1) fall into one bucket
IndexWeakVals == {U32(0, 0), U32(62171, 1), U32(1, 1), U32(65535, 65535)}

InitIndex ==
    /\ data = << >>
    /\ modulus = DefaultModulus
    /\ ChecksumIdle
    /\ block_size \in BlockSizes
    /\ weak_checksums \in SeqsUpTo(IndexWeakVals, MaxBlocks)
    /\ hash_table = EmptyMap
    /\ compiled = FALSE
    /\ last_hash = NoHash
    /\ NetIdle
    /\ SessionIdle

WeakHash(v) ==
    /\ last_hash' = [v |-> v, product |-> weak_hash_product(v), h |-> weak_hash(v),
                     called |-> TRUE]
    /\ UNCHANGED otherThanIndex
    /\ UNCHANGED <<weak_checksums, hash_table, compiled>>

CompileHashTable ==
    /\ ~compiled
    /\ hash_table' = compile_hash_table(weak_checksums, block_size)
    /\ compiled' = TRUE
    /\ UNCHANGED otherThanIndex
    /\ UNCHANGED <<weak_checksums, last_hash>>

NextIndex ==
    \/ \E v \in HashInputs : WeakHash(v)
    \/ CompileHashTable

SpecIndex == InitIndex /\ [][NextIndex]_vars

-----------------------------------------------------------------------------
(* The Matcher as a state machine: it is compiled from a buffer and         *)
(* find_matches is called on sequences of incoming (weak, strong) pairs.   *)

MaxMatcherLen == 4   \* longest buffer a Matcher is compiled from
MaxIncoming == 2     \* most pairs in an argument of find_matches

\* bytes of the buffer: 0 and SmallModulus give equal weak checksums under
\* SmallModulus and different strong hashes
MatcherBytes == {0, 1, SmallModulus}

\* a weak checksum and a strong hash that no window of a buffer has
AbsentWeak == U32(65535, 65535)
AbsentStrong == hash(<<2>>)

InitMatcher ==
    /\ data \in SeqsUpTo(MatcherBytes, MaxMatcherLen)
    /\ block_size \in 1..MaxSessionBlock
    /\ modulus = SmallModulus
    /\ ChecksumIdle
    /\ IndexIdle
    /\ NetIdle
    /\ SessionIdle

\* matcher.compile(data)
Compile ==
    /\ ~matcher.compiled
    /\ matcher' = Matcher_compile(modulus, block_size, data)
    /\ UNCHANGED found
    /\ UNCHANGED otherThanMatcher

\* the pairs a caller may pass: those of the windows of the buffer, the weak
\* checksum of a window with a strong hash of no window, and a weak checksum
\* of no window
IncomingPairs ==
    LET checksums == collect_zip(CheckSum_checksums(modulus, block_size, data))
    IN  {checksums[i] : i \in DOMAIN checksums}
            \cup {<<checksums[i][1], AbsentStrong>> : i \in DOMAIN checksums}
            \cup {<<AbsentWeak, AbsentStrong>>}

\* matcher.find_matches(hashes_by_block), one call in a behaviour
FindMatches ==
    /\ ~found.called
    /\ \E hashes_by_block \in SeqsUpTo(IncomingPairs, MaxIncoming) :
        LET r == find_matches(matcher, hashes_by_block)
        IN  /\ found' = [hashes_by_block |-> hashes_by_block, matches |-> r.matches,
                         panicked |-> r.panicked, called |-> TRUE,
                         compiled |-> matcher.compiled]
            /\ UNCHANGED matcher
            /\ UNCHANGED otherThanMatcher

NextMatcher ==
    \/ Compile
    \/ FindMatches

SpecMatcher == InitMatcher /\ [][NextMatcher]_vars

-----------------------------------------------------------------------------
(* network.rs: messages and their serialization.  A message is its kind    *)
(* and the elements of its payload.  On the wire it is self-delimiting, as *)
(* MessagePack is: the variant, the number of elements, the elements.      *)

Kinds == <<"FileName", "WeakChecksums", "StrongChecksumRequest", "StrongChecksums",
           "Matches", "Instructions">>

Message(kind, body) == [kind |-> kind, body |-> body]

KindIndex(kind) == CHOOSE i \in 1..Len(Kinds) : Kinds[i] = kind

\* rmp_serde::to_vec
to_vec(message) ==
    <<[t |-> "variant", v |-> KindIndex(message.kind)],
      [t |-> "len", v |-> Len(message.body)]>>
        \o [i \in 1..Len(message.body) |-> [t |-> "element", v |-> message.body[i]]]

\* rmp_serde::from_slice: the message the bytes start with, whatever follows
\* it; None when the bytes do not start with a complete message
from_slice(bytes) ==
    IF /\ Len(bytes) >= 2
       /\ bytes[1].t = "variant"
       /\ bytes[2].t = "len"
       /\ Len(bytes) >= 2 + bytes[2].v
       /\ \A i \in 3..(2 + bytes[2].v) : bytes[i].t = "element"
    THEN <<Message(Kinds[bytes[1].v], [i \in 1..bytes[2].v |-> bytes[i + 2].v])>>
    ELSE << >>

\* the payloads a session may compute
Bodies == {[i \in 1..n |-> i] : n \in 0..MaxBody}

-----------------------------------------------------------------------------
(* The two endpoints of one connection.  Each runs Connection::run and     *)
(* SingleConnection::run; the queues connect the two, the wire connects    *)
(* the endpoints.                                                          *)

Running(e) == connection[e] = "running"
SessionEnded(e) == session[e] \in {"ok", "err", "aborted"}

\* Sender::send on the outbound queue: an error once Connection::run has
\* returned and dropped the receiver
Enqueue_twice(e, message) ==
    /\ Len(outbound[e]) + 1 < QueueCapacity
    /\ outbound' = [outbound EXCEPT ![e] = Append(Append(@, message), message)]
    /\ enqueued' = [enqueued EXCEPT ![e] = Append(Append(@, message), message)]
Enqueue(e, message) ==
    /\ Len(outbound[e]) < QueueCapacity
    /\ outbound' = [outbound EXCEPT ![e] = Append(@, message)]
    /\ enqueued' = [enqueued EXCEPT ![e] = Append(@, message)]

InitNet ==
    /\ data = << >>
    /\ block_size = 1
    /\ modulus = DefaultModulus
    /\ ChecksumIdle
    /\ IndexIdle
    /\ SessionIdle
    /\ readable \in [Ends -> BOOLEAN]
    /\ session = [e \in Ends |-> IF e = "updater" THEN "send_filename" ELSE "recv"]
    /\ connection = [e \in Ends |-> "running"]
    /\ outbound = [e \in Ends |-> << >>]
    /\ inbound = [e \in Ends |-> << >>]
    /\ wire = [e \in Ends |-> << >>]
    /\ buffer = [e \in Ends |-> << >>]
    /\ enqueued = [e \in Ends |-> << >>]
    /\ handed = [e \in Ends |-> << >>]
    /\ main_loop = "join"
    /\ accepted = 1
    /\ MatcherIdle

(* ---- Connection::run ---- *)

\* the branch of select! on outbound_message_rx.recv(): self.send(message)
ConnectionSend(e) ==
    /\ Running(e)
    /\ outbound[e] # << >>
    /\ outbound' = [outbound EXCEPT ![e] = Tail(@)]
    /\ \/ /\ wire' = [wire EXCEPT ![e] = IF Running(Peer(e))
                                          THEN @ \o to_vec(Head(outbound[e]))
                                          ELSE @]
          /\ UNCHANGED connection
       \/ \* write_all or flush on a stream the peer has closed: an I/O error
          /\ ~Running(Peer(e))
          /\ connection' = [connection EXCEPT ![e] = "err_io"]
          /\ UNCHANGED wire
    /\ UNCHANGED <<readable, session, inbound, buffer, enqueued, handed>>
    /\ UNCHANGED otherThanNet

\* read_message: the buffer holds no complete message and read_buf returns n > 0 bytes
ReadBuf(e) ==
    /\ Running(e)
    /\ from_slice(buffer[e]) = << >>
    /\ \E n \in 1..Len(wire[Peer(e)]) :
           /\ buffer' = [buffer EXCEPT ![e] = @ \o SubSeq(wire[Peer(e)], 1, n)]
           /\ wire' = [wire EXCEPT ![Peer(e)] = SubSeq(@, n + 1, Len(@))]
    /\ UNCHANGED <<readable, session, connection, outbound, inbound, enqueued, handed>>
    /\ UNCHANGED otherThanNet

\* read_message after read_buf returned 0: Ok(None) on an empty buffer, else
\* Err(ConnectionResetByPeer)
eof_result_always_ok(buf) == "ok"
eof_result(buf) == IF buf = << >> THEN "ok" ELSE "err_reset"

\* read_message: read_buf returns 0, the peer has closed the stream
ReadEof(e) ==
    /\ Running(e)
    /\ from_slice(buffer[e]) = << >>
    /\ wire[Peer(e)] = << >>
    /\ ~Running(Peer(e))
    /\ connection' = [connection EXCEPT ![e] = eof_result(buffer[e])]
    /\ UNCHANGED <<readable, session, outbound, inbound, wire, buffer, enqueued, handed>>
    /\ UNCHANGED otherThanNet

\* read_message returns Ok(Some(message)): inbound_message_tx.send(message),
\* then self.buffer.clear()
Deliver_ignoring_the_error(e) ==
    /\ Running(e)
    /\ from_slice(buffer[e]) # << >>
    /\ buffer' = [buffer EXCEPT ![e] = << >>]
    /\ IF SessionEnded(e)
       THEN UNCHANGED <<inbound, handed>>
       ELSE /\ Len(inbound[e]) < QueueCapacity
            /\ inbound' = [inbound EXCEPT ![e] = Append(@, from_slice(buffer[e])[1])]
            /\ handed' = [handed EXCEPT ![e] = Append(@, from_slice(buffer[e])[1])]
    /\ UNCHANGED <<readable, session, connection, outbound, wire, enqueued>>
    /\ UNCHANGED otherThanNet
Deliver(e) ==
    /\ Running(e)
    /\ from_slice(buffer[e]) # << >>
    /\ LET message == from_slice(buffer[e])[1]
       IN  IF SessionEnded(e)
           THEN \* the receiver is dropped: SendError
                /\ connection' = [connection EXCEPT ![e] = "err_send"]
                /\ UNCHANGED <<inbound, buffer, handed>>
           ELSE /\ Len(inbound[e]) < QueueCapacity
                /\ inbound' = [inbound EXCEPT ![e] = Append(@, message)]
                /\ handed' = [handed EXCEPT ![e] = Append(@, message)]
                /\ buffer' = [buffer EXCEPT ![e] = << >>]
                /\ UNCHANGED connection
    /\ UNCHANGED <<readable, session, outbound, wire, enqueued>>
    /\ UNCHANGED otherThanNet

(* ---- SingleConnection::run of the updater (main.rs) ---- *)

\* let _ = self.send_filename_msg().await
UpdaterSendFileName ==
    /\ session["updater"] = "send_filename"
    /\ session' = [session EXCEPT !["updater"] = "send_weak_checksums"]
    /\ IF Running("updater")
       THEN \E body \in Bodies : Enqueue("updater", Message("FileName", body))
       ELSE UNCHANGED <<outbound, enqueued>>
    /\ UNCHANGED <<readable, connection, inbound, wire, buffer, handed>>
    /\ UNCHANGED otherThanNet

\* let _ = self.send_weak_checksums_msg().await
UpdaterSendWeakChecksums ==
    /\ session["updater"] = "send_weak_checksums"
    /\ session' = [session EXCEPT !["updater"] = "recv"]
    /\ IF readable["updater"] /\ Running("updater")
       THEN \E body \in Bodies : Enqueue("updater", Message("WeakChecksums", body))
       ELSE UNCHANGED <<outbound, enqueued>>
    /\ UNCHANGED <<readable, connection, inbound, wire, buffer, handed>>
    /\ UNCHANGED otherThanNet

\* the reply of a session to an inbound message: << >> when it sends nothing
UpdaterReply(message) ==
    IF message.kind = "StrongChecksumRequest" THEN <<"StrongChecksums">>
    ELSE IF message.kind = "Matches" THEN <<"Instructions">>
    ELSE << >>

SourceReply(message) ==
    IF message.kind = "WeakChecksums" THEN <<"StrongChecksumRequest">>
    ELSE IF message.kind = "StrongChecksums" THEN <<"Matches">>
    ELSE << >>

\* one turn of `while let Some(msg) = self.inbound_msg_rx.recv().await`
Recv(e, reply, fails) ==
    /\ session[e] = "recv"
    /\ inbound[e] # << >>
    /\ inbound' = [inbound EXCEPT ![e] = Tail(@)]
    /\ IF fails
       THEN /\ session' = [session EXCEPT ![e] = "err"]
            /\ UNCHANGED <<outbound, enqueued>>
       ELSE IF reply = << >>
       THEN UNCHANGED <<session, outbound, enqueued>>
       ELSE IF ~Running(e)
       THEN \* the Connection has dropped the receiver: SendError, `?` returns it
            /\ session' = [session EXCEPT ![e] = "err"]
            /\ UNCHANGED <<outbound, enqueued>>
       ELSE /\ \E body \in (IF reply[1] = "Instructions" THEN {<< >>} ELSE Bodies) :
                   Enqueue(e, Message(reply[1], body))
            /\ UNCHANGED session
    /\ UNCHANGED <<readable, connection, wire, buffer, handed>>
    /\ UNCHANGED otherThanNet

UpdaterRecv == Recv("updater", UpdaterReply(Head(inbound["updater"])), FALSE)

\* compute_our_checksums()? fails when the file cannot be read
SourceRecv ==
    Recv("source", SourceReply(Head(inbound["source"])),
         Head(inbound["source"]).kind = "WeakChecksums" /\ ~readable["source"])

\* recv() returns None: the queue is empty and the Connection has dropped the sender
RecvNone(e) ==
    /\ session[e] = "recv"
    /\ inbound[e] = << >>
    /\ ~Running(e)
    /\ session' = [session EXCEPT ![e] = "ok"]
    /\ UNCHANGED <<readable, connection, outbound, inbound, wire, buffer, enqueued, handed>>
    /\ UNCHANGED otherThanNet

\* the process of an endpoint is terminated from outside (the updater is a
\* command the user may interrupt, the source a daemon that may be stopped):
\* its tasks are gone and the operating system closes its socket
Abort(e) ==
    /\ Running(e)
    /\ connection' = [connection EXCEPT ![e] = "aborted"]
    /\ session' = [session EXCEPT ![e] = IF SessionEnded(e) THEN @ ELSE "aborted"]
    /\ UNCHANGED <<readable, outbound, inbound, wire, buffer, enqueued, handed>>
    /\ UNCHANGED otherThanNet

(* ---- main of the source daemon (bin/syncrd.rs) ---- *)

\* how a task of the daemon can have finished: a session task that has
\* panicked has finished too (its JoinHandle resolves with the error)
ConnectionFinished == {"ok", "err_reset", "err_io", "err_send"}
SessionFinished == {"ok", "err", "panicked_slice", "panicked_index", "panicked_unwrap"}

\* let _ = tokio::join!(handle1, handle2) returns: the task of Connection::run
\* and the task of SingleConnection::run have both finished, and the loop
\* goes back to listener.accept()
Join_without_waiting ==
    /\ main_loop = "join"
    /\ main_loop' = "accept"
    /\ UNCHANGED <<checksumVars, indexVars, netVars, sessionVars, matcherVars, accepted>>
Join ==
    /\ main_loop = "join"
    /\ connection["source"] \in ConnectionFinished
    /\ session["source"] \in SessionFinished
    /\ main_loop' = "accept"
    /\ UNCHANGED <<checksumVars, indexVars, netVars, sessionVars, matcherVars, accepted>>

NextNet ==
    \/ \E e \in Ends : ConnectionSend(e)
    \/ \E e \in Ends : ReadBuf(e)
    \/ \E e \in Ends : ReadEof(e)
    \/ \E e \in Ends : Deliver(e)
    \/ UpdaterSendFileName
    \/ UpdaterSendWeakChecksums
    \/ UpdaterRecv
    \/ SourceRecv
    \/ \E e \in Ends : RecvNone(e)
    \/ \E e \in Ends : Abort(e)
    \/ Join

SpecNet == InitNet /\ [][NextNet]_vars

-----------------------------------------------------------------------------
(* One endpoint of the program and a peer that is not the program: any     *)
(* client that connects to the daemon, any server the updater connects     *)
(* to.  The peer writes whole messages in any order and may close the      *)
(* stream at any time; it is not obliged to do either.                     *)

\* how many messages the peer writes
MaxPeerSent == 2

Ours(e) == session[e] # "peer"

\* what the peer writes: a kind the program's session answers and a kind it
\* takes without an answer
PeerKinds(p) ==
    IF p = "updater" THEN {"FileName", "WeakChecksums"} ELSE {"FileName", "Matches"}

InitPeer ==
    /\ data = << >>
    /\ block_size = 1
    /\ modulus = DefaultModulus
    /\ ChecksumIdle
    /\ IndexIdle
    /\ SessionIdle
    /\ \E p \in Ends :
           /\ readable \in {r \in [Ends -> BOOLEAN] : r[p]}
           /\ session = [e \in Ends |-> IF e = p THEN "peer"
                                        ELSE IF e = "updater" THEN "send_filename"
                                        ELSE "recv"]
    /\ connection = [e \in Ends |-> "running"]
    /\ outbound = [e \in Ends |-> << >>]
    /\ inbound = [e \in Ends |-> << >>]
    /\ wire = [e \in Ends |-> << >>]
    /\ buffer = [e \in Ends |-> << >>]
    /\ enqueued = [e \in Ends |-> << >>]
    /\ handed = [e \in Ends |-> << >>]
    /\ main_loop = "join"
    /\ accepted = 1
    /\ MatcherIdle

\* the peer writes a message to the stream
PeerWrite(p) ==
    /\ ~Ours(p)
    /\ Running(p)
    /\ Len(enqueued[p]) < MaxPeerSent
    /\ \E kind \in PeerKinds(p) :
           LET message == Message(kind, << >>)
           IN  /\ wire' = [wire EXCEPT ![p] = IF Running(Peer(p))
                                               THEN @ \o to_vec(message)
                                               ELSE @]
               /\ enqueued' = [enqueued EXCEPT ![p] = Append(@, message)]
    /\ UNCHANGED <<readable, session, connection, outbound, inbound, buffer, handed>>
    /\ UNCHANGED otherThanNet

\* the peer closes the stream
PeerClose(p) ==
    /\ ~Ours(p)
    /\ Running(p)
    /\ connection' = [connection EXCEPT ![p] = "closed"]
    /\ UNCHANGED <<readable, session, outbound, inbound, wire, buffer, enqueued, handed>>
    /\ UNCHANGED otherThanNet

NextPeer ==
    \/ \E e \in Ends : Ours(e) /\ ConnectionSend(e)
    \/ \E e \in Ends : Ours(e) /\ ReadBuf(e)
    \/ \E e \in Ends : Ours(e) /\ ReadEof(e)
    \/ \E e \in Ends : Ours(e) /\ Deliver(e)
    \/ UpdaterSendFileName
    \/ UpdaterSendWeakChecksums
    \/ UpdaterRecv
    \/ SourceRecv
    \/ \E e \in Ends : Ours(e) /\ RecvNone(e)
    \/ \E e \in Ends : Ours(e) /\ Abort(e)
    \/ Join
    \/ \E p \in Ends : PeerWrite(p)
    \/ \E p \in Ends : PeerClose(p)

\* the tasks of the program's endpoint are polled when they are ready; the
\* peer is under no obligation
FairPeer ==
    /\ \A e \in Ends : WF_vars(Ours(e) /\ ConnectionSend(e))
    /\ \A e \in Ends : WF_vars(Ours(e) /\ ReadBuf(e))
    /\ \A e \in Ends : WF_vars(Ours(e) /\ ReadEof(e))
    /\ \A e \in Ends : WF_vars(Ours(e) /\ Deliver(e))
    /\ WF_vars(UpdaterSendFileName)
    /\ WF_vars(UpdaterSendWeakChecksums)
    /\ WF_vars(UpdaterRecv)
    /\ WF_vars(SourceRecv)
    /\ \A e \in Ends : WF_vars(Ours(e) /\ RecvNone(e))
    /\ WF_vars(Join)

SpecPeer == InitPeer /\ [][NextPeer]_vars /\ FairPeer

-----------------------------------------------------------------------------
(* The sessions: what SingleConnection of main.rs (the updater) and of     *)
(* bin/syncrd.rs (the source) compute.  Both use CheckSum::default(): the  *)
(* modulus is 1 << 16; the block size, 1000 in the source, ranges over     *)
(* small values here so that short files have several blocks and a tail.   *)

\* the paths a FileName message may carry; only "f" names a file
Paths == {"f", "g"}

\* std::fs::read(path) on a host whose file "f" is d: Some(bytes) or an error
fs_read(d, path) == IF path = "f" THEN d ELSE << >>

\* Iterator::collect of a weak rolling stream
RECURSIVE collect(_)
collect(it) ==
    LET r == WeakCheckSumRollingIterator_next(it)
    IN  IF r.item = << >> THEN << >> ELSE <<r.item[1]>> \o collect(r.it)

\* Iterator::collect of a weak non-overlapping stream
RECURSIVE collect_non_overlapping(_)
collect_non_overlapping(ch) ==
    LET r == non_overlapping_next(ch)
    IN  IF r.item = << >> THEN << >> ELSE <<r.item[1]>> \o collect_non_overlapping(r.ch)

(* ---- main.rs ---- *)

\* compute_our_checksums: `?` returns the error of fs::read before anything is assigned
updater_compute_our_checksums(m, bs, st, read) ==
    IF read = << >>
    THEN [ok |-> FALSE, state |-> st]
    ELSE [ok |-> TRUE,
          state |-> [st EXCEPT !.own_data = read[1],
                               !.weak_checksums =
                                   collect(WeakCheckSum_checksums(m, bs, read[1]))]]

\* StrongCheckSum::checksum_for_block(idx, data): the strong checksum of the
\* block that starts at idx, a tail block taken at its actual length
checksum_for_block(bs, idx, own_data) ==
    hash(Slice(own_data, Min(idx, Len(own_data)), Min(idx + bs, Len(own_data))))

\* the loop of run that answers a StrongChecksumRequest
strong_checksums_result_reversed(bs, indices, own_data) ==
    [i \in 1..Len(indices) |->
        <<indices[Len(indices) + 1 - i],
          checksum_for_block(bs, indices[Len(indices) + 1 - i], own_data)>>]
strong_checksums_result(bs, indices, own_data) ==
    [i \in 1..Len(indices) |-> <<indices[i], checksum_for_block(bs, indices[i], own_data)>>]

given_indices_issue_list_of_instructions(indices) == << >>

\* the match of run: the message it sends for an inbound message, if any
updater_reply_with_weak_checksums(bs, st, message) ==
    IF message.kind = "StrongChecksumRequest"
    THEN <<Message("WeakChecksums", st.weak_checksums)>>
    ELSE << >>
updater_reply(bs, st, message) ==
    IF message.kind = "StrongChecksumRequest"
    THEN <<Message("StrongChecksums",
                   strong_checksums_result(bs, message.body, st.own_data))>>
    ELSE IF message.kind = "Matches"
    THEN <<Message("Instructions", given_indices_issue_list_of_instructions(message.body))>>
    ELSE << >>

(* ---- bin/syncrd.rs ---- *)

set_file_path_ignored(st, path) == st
set_file_path(st, path) == [st EXCEPT !.file_path = path]

set_remote_weak_checksums(st, weak) == [st EXCEPT !.remote_weak_checksums = weak]

source_compute_our_checksums(m, bs, st, read) ==
    IF read = << >>
    THEN [ok |-> FALSE, state |-> st]
    ELSE [ok |-> TRUE,
          state |-> [st EXCEPT !.own_data = read[1],
                               !.weak_checksums = collect_non_overlapping(
                                   WeakCheckSum_checksums_non_overlapping(m, bs, read[1]))]]

\* SingleConnection::compile_hash_table: the index of the state's own weak_checksums
source_compile_hash_table_skipped(bs, st) == st
source_compile_hash_table(bs, st) ==
    [st EXCEPT !.hash_table = compile_hash_table(st.weak_checksums, bs)]

\* the two contains_key checks of build_strong_hash_request
candidate_found_always(table, weak) == TRUE
candidate_found(table, weak) ==
    IF weak_hash(weak) \notin DOMAIN table THEN FALSE
    ELSE weak \in DOMAIN table[weak_hash(weak)]

RECURSIVE request_loop(_, _, _, _)
request_loop(table, remote, i, matches) ==
    IF i > Len(remote) THEN matches
    ELSE request_loop(table, remote, i + 1,
                      IF candidate_found(table, remote[i])
                      THEN Append(matches, i - 1)
                      ELSE matches)

build_strong_hash_request_of_every_position(st) ==
    Message("StrongChecksumRequest",
            [i \in 1..Len(st.remote_weak_checksums) |-> i - 1])
build_strong_hash_request(st) ==
    Message("StrongChecksumRequest",
            request_loop(st.hash_table, st.remote_weak_checksums, 1, << >>))

\* the inner loop of process_strong_hash_response over the candidates of one
\* remote offset; the slice own_data[our_offset..our_offset + block_size]
\* panics when it ends past the data
strong_matches_any(our_strong, strong) == TRUE
strong_matches(our_strong, strong) == our_strong = strong

RECURSIVE verify_candidates(_, _, _, _, _, _, _)
verify_candidates(bs, own_data, offsets, j, remote_offset, strong, matches) ==
    IF j > Len(offsets) THEN [panic |-> "", matches |-> matches]
    ELSE IF offsets[j] + bs > Len(own_data)
    THEN [panic |-> "panicked_slice", matches |-> matches]
    ELSE verify_candidates(bs, own_data, offsets, j + 1, remote_offset, strong,
             IF strong_matches(hash(Slice(own_data, offsets[j], offsets[j] + bs)), strong)
             THEN Append(matches, <<offsets[j], remote_offset>>)
             ELSE matches)

\* the outer loop: remote_weak_checksums[remote_offset] panics out of range,
\* each unwrap() panics when its lookup misses
RECURSIVE response_loop(_, _, _, _, _)
response_loop(bs, st, strong_checksums, i, matches) ==
    IF i > Len(strong_checksums) THEN [panic |-> "", matches |-> matches]
    ELSE LET remote_offset == strong_checksums[i][1]
             strong == strong_checksums[i][2]
         IN  IF remote_offset >= Len(st.remote_weak_checksums)
             THEN [panic |-> "panicked_index", matches |-> matches]
             ELSE LET weak == st.remote_weak_checksums[remote_offset + 1]
                  IN  IF ~candidate_found(st.hash_table, weak)
                      THEN [panic |-> "panicked_unwrap", matches |-> matches]
                      ELSE LET r == verify_candidates(bs, st.own_data,
                                        st.hash_table[weak_hash(weak)][weak], 1,
                                        remote_offset, strong, matches)
                           IN  IF r.panic # "" THEN r
                               ELSE response_loop(bs, st, strong_checksums, i + 1,
                                                  r.matches)

process_strong_hash_response(bs, st, strong_checksums) ==
    response_loop(bs, st, strong_checksums, 1, << >>)

\* one turn of the loop of run on an inbound message: the state afterwards,
\* the message sent if any, and how the turn ended ("recv": the loop goes on)
source_turn(m, bs, st, d, message) ==
    IF message.kind = "FileName"
    THEN [state |-> set_file_path(st, message.body[1]), reply |-> << >>, then |-> "recv"]
    ELSE IF message.kind = "WeakChecksums"
    THEN LET st1 == set_remote_weak_checksums(st, message.body)
             r == source_compute_our_checksums(m, bs, st1, fs_read(d, st1.file_path))
             st3 == source_compile_hash_table(bs, r.state)
         IN  IF r.ok
             THEN [state |-> st3, reply |-> <<build_strong_hash_request(st3)>>,
                   then |-> "recv"]
             ELSE [state |-> r.state, reply |-> << >>, then |-> "err"]
    ELSE IF message.kind = "StrongChecksums"
    THEN LET r == process_strong_hash_response(bs, st, message.body)
         IN  IF r.panic = ""
             THEN [state |-> st, reply |-> <<Message("Matches", r.matches)>>,
                   then |-> "recv"]
             ELSE [state |-> st, reply |-> << >>, then |-> r.panic]
    ELSE [state |-> st, reply |-> << >>, then |-> "recv"]

-----------------------------------------------------------------------------
(* The updater session as a state machine.  The Connection and the peer    *)
(* are its environment: a message of the peer is handed over and received  *)
(* in one step, and what the session sends stays on its outbound queue.    *)

SessionBytes == {0, 1}
Files == SeqsUpTo(SessionBytes, MaxFile)

\* a file on disk, or none that can be read
Disks == {<<f>> : f \in Files} \cup {<< >>}

Received(e, message) == handed' = [handed EXCEPT ![e] = Append(@, message)]

InitSession ==
    /\ data = << >>
    /\ block_size \in 1..MaxSessionBlock
    /\ modulus = DefaultModulus
    /\ ChecksumIdle
    /\ IndexIdle
    /\ disk \in [Ends -> Disks]
    /\ readable = [e \in Ends |-> disk[e] # << >>]
    /\ connection = [e \in Ends |-> "running"]
    /\ outbound = [e \in Ends |-> << >>]
    /\ inbound = [e \in Ends |-> << >>]
    /\ wire = [e \in Ends |-> << >>]
    /\ buffer = [e \in Ends |-> << >>]
    /\ enqueued = [e \in Ends |-> << >>]
    /\ handed = [e \in Ends |-> << >>]
    /\ main_loop = "join"
    /\ accepted = 1
    /\ MatcherIdle

\* the updater runs; no source session is part of the behaviour
InitUpdater ==
    /\ InitSession
    /\ disk["source"] = << >>
    /\ \E remote_file \in Paths :
           state = [e \in Ends |-> IF e = "updater" THEN UpdaterState(remote_file)
                                   ELSE SourceState]
    /\ session = [e \in Ends |-> IF e = "updater" THEN "send_filename" ELSE "ok"]

\* let _ = self.send_filename_msg().await
Updater_send_filename_msg ==
    /\ session["updater"] = "send_filename"
    /\ session' = [session EXCEPT !["updater"] = "send_weak_checksums"]
    /\ Enqueue("updater", Message("FileName", <<state["updater"].remote_file_path>>))
    /\ UNCHANGED <<readable, connection, inbound, wire, buffer, handed>>
    /\ UNCHANGED <<checksumVars, indexVars, sessionVars, daemonVars, matcherVars>>

\* let _ = self.send_weak_checksums_msg().await
Updater_send_weak_checksums_msg ==
    /\ session["updater"] = "send_weak_checksums"
    /\ session' = [session EXCEPT !["updater"] = "recv"]
    /\ LET st == state["updater"]
           r == updater_compute_our_checksums(modulus, block_size, st,
                                              fs_read(disk["updater"], st.file_path))
       IN  /\ state' = [state EXCEPT !["updater"] = r.state]
           /\ IF r.ok
              THEN Enqueue("updater", Message("WeakChecksums", r.state.weak_checksums))
              ELSE UNCHANGED <<outbound, enqueued>>
    /\ UNCHANGED <<readable, connection, inbound, wire, buffer, handed, disk>>
    /\ UNCHANGED <<checksumVars, indexVars, daemonVars, matcherVars>>

\* what a peer may send the updater: requests for any offsets, in any order,
\* match lists, and a kind the updater has no arm for
UpdaterInbox ==
    {Message("StrongChecksumRequest", offsets) : offsets \in SeqsUpTo(0..(MaxFile - 1), 2)}
        \cup {Message("Matches", pairs) : pairs \in {<< >>, << <<0, 0>> >>}}
        \cup {Message("FileName", <<"f">>)}

\* one turn of `while let Some(msg) = self.inbound_msg_rx.recv().await`
Updater_recv ==
    /\ session["updater"] = "recv"
    /\ Len(handed["updater"]) < MaxUpdaterReceived
    /\ \E message \in UpdaterInbox :
           LET reply == updater_reply(block_size, state["updater"], message)
           IN  /\ Received("updater", message)
               /\ IF reply = << >>
                  THEN UNCHANGED <<outbound, enqueued>>
                  ELSE Enqueue("updater", reply[1])
    /\ UNCHANGED <<readable, session, connection, inbound, wire, buffer>>
    /\ UNCHANGED <<checksumVars, indexVars, sessionVars, daemonVars, matcherVars>>

NextUpdater ==
    \/ Updater_send_filename_msg
    \/ Updater_send_weak_checksums_msg
    \/ Updater_recv

SpecUpdater == InitUpdater /\ [][NextUpdater]_vars

-----------------------------------------------------------------------------
(* The source session as a state machine.  Its peer is the environment:    *)
(* it sends what the updater's code sends for the file on the updater's    *)
(* disk, and it may also send messages the updater's code would not send.  *)

\* the source runs; the updater's disk is the file of the peer
InitSource ==
    /\ InitSession
    /\ disk["updater"] # << >>
    /\ Len(disk["updater"][1]) <= MaxPeerFile
    /\ state = [e \in Ends |-> IF e = "updater" THEN UpdaterState("f") ELSE SourceState]
    /\ session = [e \in Ends |-> IF e = "updater" THEN "ok" ELSE "recv"]

\* the WeakChecksums message of the updater's code for the peer's file
PeerWeakChecksums ==
    collect(WeakCheckSum_checksums(modulus, block_size, disk["updater"][1]))

\* the offsets of the last StrongChecksumRequest the source has sent
LastRequest ==
    LET requests == SelectSeq(enqueued["source"],
                              LAMBDA message : message.kind = "StrongChecksumRequest")
    IN  IF requests = << >> THEN << >> ELSE requests[Len(requests)].body

\* a digest no block of a file has
WrongDigest == hash(<<2>>)

\* the StrongChecksums lists a peer may send: the answer of the updater's
\* code to the last request, and the same offsets with digests that match
\* nothing
PeerStrongChecksums ==
    LET answer == strong_checksums_result(block_size, LastRequest, disk["updater"][1])
    IN  {answer, [i \in DOMAIN answer |-> <<answer[i][1], WrongDigest>>]}

SourceInbox ==
    {Message("FileName", <<path>>) : path \in Paths}
        \cup {Message("WeakChecksums", PeerWeakChecksums)}
        \cup {Message("StrongChecksums", list) : list \in PeerStrongChecksums}
        \cup {Message("Matches", << >>)}

\* one turn of `while let Some(msg) = self.inbound_msg_rx.recv().await`
Source_recv ==
    /\ session["source"] = "recv"
    /\ Len(handed["source"]) < MaxSourceReceived
    /\ \E message \in SourceInbox :
           LET turn == source_turn(modulus, block_size, state["source"],
                                   disk["source"], message)
           IN  /\ Received("source", message)
               /\ state' = [state EXCEPT !["source"] = turn.state]
               /\ session' = [session EXCEPT !["source"] = turn.then]
               /\ IF turn.reply = << >>
                  THEN UNCHANGED <<outbound, enqueued>>
                  ELSE Enqueue("source", turn.reply[1])
    /\ UNCHANGED <<readable, connection, inbound, wire, buffer, disk>>
    /\ UNCHANGED <<checksumVars, indexVars, daemonVars, matcherVars>>

NextSource == Source_recv

SpecSource == InitSource /\ [][NextSource]_vars

-----------------------------------------------------------------------------
(* The loop of main of the source daemon over several connections.  The    *)
(* client of each connection is the environment: the session takes what a  *)
(* client may send while the connection runs, the client closes the        *)
(* stream, and the loop accepts the next client once it is past join!.     *)

MaxConnections == 2  \* most connections the listener accepts

\* the first connection has been accepted; both hosts hold a file of one byte,
\* or the source's file cannot be read
InitDaemon ==
    /\ InitSession
    /\ block_size = 1
    /\ disk["updater"] = << <<0>> >>
    /\ disk["source"] \in {<< >>, << <<0>> >>, << <<1>> >>}
    /\ state = [e \in Ends |-> IF e = "updater" THEN UpdaterState("f") ELSE SourceState]
    /\ session = [e \in Ends |-> IF e = "updater" THEN "peer" ELSE "recv"]

\* listener.accept() returns the next client: new queues, a new Connection
\* on the new stream, ConnectionState::default(), and the two tasks spawned
Accept ==
    /\ main_loop = "accept"
    /\ accepted < MaxConnections
    /\ accepted' = accepted + 1
    /\ main_loop' = "join"
    /\ connection' = [e \in Ends |-> "running"]
    /\ session' = [session EXCEPT !["source"] = "recv"]
    /\ outbound' = [e \in Ends |-> << >>]
    /\ inbound' = [e \in Ends |-> << >>]
    /\ wire' = [e \in Ends |-> << >>]
    /\ buffer' = [e \in Ends |-> << >>]
    /\ enqueued' = [e \in Ends |-> << >>]
    /\ handed' = [e \in Ends |-> << >>]
    /\ state' = [state EXCEPT !["source"] = SourceState]
    /\ UNCHANGED <<readable, disk, checksumVars, indexVars, matcherVars>>

NextDaemon ==
    \/ Running("source") /\ Source_recv
    \/ PeerClose("updater")
    \/ ReadEof("source")
    \/ RecvNone("source")
    \/ Join
    \/ Accept

SpecDaemon == InitDaemon /\ [][NextDaemon]_vars

-----------------------------------------------------------------------------
(* What the statements below refer to: the sums of the definition of the   *)
(* weak checksum, written without the code's helpers.                      *)

N == Len(data)
CeilDiv(n, b) == (n + b - 1) \div b

RECURSIVE ByteSum(_, _, _)
ByteSum(buf, l, r) ==
    IF l > r THEN 0 ELSE buf[l + 1] + ByteSum(buf, l + 1, r)

RECURSIVE WeightedSum(_, _, _)
WeightedSum(buf, l, r) ==
    IF l > r THEN 0 ELSE (r - l + 1) * buf[l + 1] + WeightedSum(buf, l + 1, r)

\* the weak checksum of bytes [l, r]: a in the low half, b in the high half
WeakOf(buf, l, r, m) ==
    [hi |-> WeightedSum(buf, l, r) % m, lo |-> ByteSum(buf, l, r) % m]

\* (b << 16) + a in 32-bit unsigned arithmetic
ShiftedSum(a, b) == [hi |-> (b + a \div TwoTo16) % TwoTo16, lo |-> a % TwoTo16]

\* the number of values the rolling stream is to produce
ExpectedRolling == IF N = 0 THEN 0 ELSE IF N < block_size THEN 1 ELSE N - block_size + 1

-----------------------------------------------------------------------------
(* C1. For a buf of length N >= B, the k-th value of the weak rolling   *)
(* stream is (b_expanded(k, k+B-1) << 16) + a_expanded(k, k+B-1), and the  *)
(* value of offset k is emitted before the window advances: after k values *)
(* the iterator holds the sums of the window [k, k+B-1].                   *)
C1_RollingEqualsExpanded ==
    (stream = "weak_rolling" /\ N >= block_size) =>
        /\ \A k \in 0..(Len(emitted) - 1) :
               /\ k <= N - block_size
               /\ emitted[k + 1] =
                      ShiftedSum(a_expanded(modulus, k, k + block_size - 1, data),
                                 b_expanded(modulus, k, k + block_size - 1, data))
        /\ ~weak_iter.ended =>
               /\ weak_iter.previous_k = Len(emitted)
               /\ weak_iter.previous_l = Len(emitted) + block_size - 1
               /\ weak_iter.a_k_l = a_expanded(modulus, weak_iter.previous_k,
                                               weak_iter.previous_l, data)
               /\ weak_iter.b_k_l = b_expanded(modulus, weak_iter.previous_k,
                                               weak_iter.previous_l, data)

\* the whole stream of a buffer two windows longer than a block of at least
\* two bytes has been produced, with sums that wrapped around the modulus
C1_Witness ==
    /\ stream = "weak_rolling"
    /\ block_size >= 2
    /\ N >= block_size + 2
    /\ Len(emitted) = N - block_size + 1
    /\ modulus = SmallModulus
    /\ data[1] = 255

(* C2. The weak rolling stream produces exactly N-B+1 values when N >= B,  *)
(* exactly one value, the checksum of the whole buf, when 0 < N < B,    *)
(* none when N = 0, and after its last value next() keeps returning None.  *)
C2_RollingCount ==
    stream = "weak_rolling" =>
        /\ Len(emitted) <= ExpectedRolling
        /\ nones > 0 => Len(emitted) = ExpectedRolling /\ weak_iter.ended
        /\ (0 < N /\ N < block_size /\ Len(emitted) >= 1) =>
               emitted[1] = WeakOf(data, 0, N - 1, modulus)

\* a short buffer with a non-zero checksum: its one value, then None twice
C2_Witness ==
    /\ stream = "weak_rolling"
    /\ 0 < N /\ N < block_size
    /\ Len(emitted) = 1
    /\ emitted[1].lo # 0
    /\ nones = MaxNones

(* C3. The weak non-overlapping stream produces exactly ceil(N/B) values   *)
(* (0 when N = 0), also when 0 < N < B, where it is to produce one.        *)
C3_NonOverlappingCount ==
    stream = "weak_non_overlapping" =>
        /\ Len(emitted) <= CeilDiv(N, block_size)
        /\ nones > 0 => Len(emitted) = CeilDiv(N, block_size)

(* C4. For every block index i < ceil(N/B) the i-th value of the weak      *)
(* non-overlapping stream is the weak checksum of bytes                    *)
(* [i*B, min((i+1)*B, N) - 1]; when N mod B # 0 the last value covers the  *)
(* tail [floor(N/B)*B, N-1].                                               *)
C4_NonOverlappingBlocks ==
    stream = "weak_non_overlapping" =>
        /\ \A i \in 0..(CeilDiv(N, block_size) - 1) :
               i < Len(emitted) =>
                   emitted[i + 1] =
                       WeakOf(data, i * block_size,
                              Min((i + 1) * block_size, N) - 1, modulus)
        /\ nones > 0 => Len(emitted) >= CeilDiv(N, block_size)
        /\ (nones > 0 /\ N % block_size # 0) =>
               emitted[Len(emitted)] =
                   WeakOf(data, (N \div block_size) * block_size, N - 1, modulus)

\* two full blocks and a tail whose checksum differs from the last full block's
C4_Witness ==
    /\ stream = "weak_non_overlapping"
    /\ nones > 0
    /\ N % block_size # 0
    /\ N > 2 * block_size
    /\ Len(emitted) = 3
    /\ emitted[3] # emitted[2]

(* C5. The strong non-overlapping stream follows the weak stream's tail    *)
(* policy: one hash per block at offsets 0, B, 2B, ... and one for a       *)
(* partial tail, ceil(N/B) values in all, none for the empty buf.       *)
C5_StrongNonOverlappingCount ==
    stream = "strong_non_overlapping" =>
        /\ Len(emitted) <= CeilDiv(N, block_size)
        /\ \A i \in 0..(Len(emitted) - 1) :
               emitted[i + 1] =
                   hash(Slice(data, i * block_size, Min((i + 1) * block_size, N)))
        /\ nones > 0 => Len(emitted) = CeilDiv(N, block_size)

(* C6. For a buf of length N >= B the strong rolling stream produces    *)
(* exactly one hash for each offset k in [0, N-B], the hash of bytes       *)
(* [k, k+B), and no hash of a window that extends past the buf's end.   *)
C6_StrongRollingFullWindows ==
    (stream = "strong_rolling" /\ N >= block_size) =>
        /\ \A k \in 0..(Len(emitted) - 1) :
               /\ k + block_size <= N
               /\ emitted[k + 1] = hash(Slice(data, k, k + block_size))
        /\ nones > 0 => Len(emitted) = N - block_size + 1

(* C7. With a modulus M <= 2^16 the running sums a and b of the weak       *)
(* rolling iterator lie in [0, M) in every state, and every emitted value  *)
(* carries in its low 16 bits the byte sum of its window mod M and in its  *)
(* high 16 bits the position-weighted byte sum mod M.                      *)
InRange(it) ==
    /\ it.a_k_l \in 0..(it.modulus - 1)
    /\ it.b_k_l \in 0..(it.modulus - 1)

C7_ResiduesAndHalves ==
    /\ stream = "weak_rolling" =>
        /\ InRange(weak_iter)
        /\ \A k \in 0..(Len(emitted) - 1) :
               LET l == IF N < block_size THEN 0 ELSE k
                   r == IF N < block_size THEN N - 1 ELSE k + block_size - 1
               IN  /\ emitted[k + 1].lo = ByteSum(data, l, r) % modulus
                   /\ emitted[k + 1].hi = WeightedSum(data, l, r) % modulus
    /\ stream = "weak_non_overlapping" =>
        /\ InRange(non_overlapping_iter.a.iter)
        /\ InRange(non_overlapping_iter.b)

\* the subtraction of the last step left a negative value before the residue
C7_Witness ==
    /\ stream = "weak_rolling"
    /\ N >= block_size
    /\ ~weak_iter.ended
    /\ weak_iter.previous_k >= 1
    /\ a_expanded(modulus, weak_iter.previous_k - 1, weak_iter.previous_l - 1, data)
           + data[weak_iter.previous_l + 1] - data[weak_iter.previous_k] < 0
    /\ Len(emitted) >= 1

(* C8. For every 32-bit weak checksum v, weak_hash(v) is                   *)
(* ((v >> 16) XOR ((v & 0xFFFF) * 62171)) mod 2^16, and the product        *)
(* (v & 0xFFFF) * 62171 never exceeds 2^32 - 1: the 32-bit multiplication  *)
(* does not overflow.                                                      *)
Bit(x, i) == (x \div (2 ^ i)) % 2

\* (v & 0xFFFF) * 62171 as an integer, hi * 2^16 + lo, from the two bytes of
\* the low half
ClaimedProduct(v) ==
    LET q == (v.lo \div 256) * 62171
        t == (q % 256) * 256 + (v.lo % 256) * 62171
    IN  [hi |-> q \div 256 + t \div TwoTo16, lo |-> t % TwoTo16]

C8_WeakHashFormula ==
    last_hash.called =>
        LET v == last_hash.v
            p == ClaimedProduct(v)
        IN  /\ last_hash.h \in 0..(TwoTo16 - 1)
            /\ \A i \in 0..15 :
                   Bit(last_hash.h, i) = (Bit(v.hi, i) + Bit(p.lo, i)) % 2
            /\ p.hi <= TwoTo16 - 1
            /\ ~last_hash.product.overflow
            /\ last_hash.product.hi = p.hi /\ last_hash.product.lo = p.lo

\* weak_hash was called on the largest 32-bit value: the largest product
C8_Witness ==
    /\ last_hash.called
    /\ last_hash.v = U32(65535, 65535)
    /\ last_hash.product.hi > 62000

(* C9. After the index is compiled from a sequence W of K weak checksums,  *)
(* every block index i in [0, K) appears exactly once over all leaf lists, *)
(* as the byte offset i*B in the list at bucket[h16(W[i])][W[i]]: probing  *)
(* with W[i] returns a list that contains i*B, and every leaf list is in   *)
(* ascending order of offsets.                                             *)
Leaves(table) == UNION {{<<h, w>> : w \in DOMAIN table[h]} : h \in DOMAIN table}

Entries(table) ==
    UNION {{<<l[1], l[2], j>> : j \in 1..Len(table[l[1]][l[2]])} : l \in Leaves(table)}

C9_IndexRoundTrip ==
    compiled =>
        /\ \A i \in 0..(Len(weak_checksums) - 1) :
               /\ Cardinality({e \in Entries(hash_table) :
                                   hash_table[e[1]][e[2]][e[3]] = i * block_size}) = 1
               /\ \E j \in 1..Len(probe(hash_table, weak_checksums[i + 1])) :
                      probe(hash_table, weak_checksums[i + 1])[j] = i * block_size
        /\ Cardinality(Entries(hash_table)) = Len(weak_checksums)
        /\ \A l \in Leaves(hash_table) :
               /\ l[1] = weak_hash(l[2])
               /\ \A j \in 1..(Len(hash_table[l[1]][l[2]]) - 1) :
                      hash_table[l[1]][l[2]][j] < hash_table[l[1]][l[2]][j + 1]

\* an index with a bucket of two weak checksums and a leaf list of two offsets
C9_Witness ==
    /\ compiled
    /\ Len(weak_checksums) >= 3
    /\ \E h \in DOMAIN hash_table :
           /\ Cardinality(DOMAIN hash_table[h]) >= 2
           /\ \E w \in DOMAIN hash_table[h] : Len(hash_table[h][w]) >= 2

(* C10. Within one connection and in each direction, the messages handed   *)
(* to the receiving session's inbound queue are exactly the messages the   *)
(* sending session put on its outbound queue: the same order, none lost,   *)
(* none duplicated, however the byte stream splits or joins the serialized *)
(* messages into reads.  What has been handed over is at every time a      *)
(* prefix of what was enqueued, and it is all of it once nothing is left   *)
(* in the outbound queue, on the wire or in the read buffer.               *)
IsPrefix(s, t) == Len(s) <= Len(t) /\ s = SubSeq(t, 1, Len(s))

C10_FifoDelivery ==
    \A e \in Ends :
        /\ IsPrefix(handed[Peer(e)], enqueued[e])
        /\ (/\ Running(e) /\ Running(Peer(e))
            /\ outbound[e] = << >>
            /\ wire[e] = << >>
            /\ buffer[Peer(e)] = << >>) => handed[Peer(e)] = enqueued[e]


(* C11. When the read buffer holds one complete message followed by bytes  *)
(* of the next, handing the first message to the inbound queue removes     *)
(* only the bytes of that message: what followed it is still in the read   *)
(* buffer afterwards.                                                      *)
\* the number of units the message at the start of the bytes takes
FrameLen(bytes) == 2 + bytes[2].v

C11_TrailingBytesKept ==
    [][\A e \in Ends :
          (handed'[e] # handed[e]) =>
              buffer'[e] = SubSeq(buffer[e], FrameLen(buffer[e]) + 1, Len(buffer[e]))]_vars

(* C12. When the peer has closed the byte stream, Connection::run ends     *)
(* with success only on an empty read buffer and with ConnectionResetByPeer *)
(* only on a buffer whose bytes form no complete message; once it has      *)
(* ended either way, nothing more is handed to the inbound queue.          *)
AtEof(e) == ~Running(Peer(e)) /\ wire[Peer(e)] = << >>

C12_EofOutcome ==
    [][\A e \in Ends :
          /\ (Running(e) /\ connection'[e] = "ok") =>
                 AtEof(e) /\ buffer[e] = << >>
          /\ (Running(e) /\ connection'[e] = "err_reset") =>
                 /\ AtEof(e)
                 /\ buffer[e] # << >>
                 /\ from_slice(buffer[e]) = << >>
                 /\ handed'[e] = handed[e]
          /\ (Running(e) /\ AtEof(e) /\ connection'[e] \notin {"running", "aborted", "err_io"}) =>
                 connection'[e] = (IF buffer[e] = << >> THEN "ok" ELSE "err_reset")
          /\ connection[e] \in {"ok", "err_reset"} =>
                 /\ connection'[e] = connection[e]
                 /\ handed'[e] = handed[e]]_vars

\* the peer went away while the buffer held the rest of a message whose
\* start was discarded: the connection ended with ConnectionResetByPeer
C12_Witness ==
    \E e \in Ends :
        /\ connection[e] = "err_reset"
        /\ buffer[e] # << >>
        /\ handed[e] # << >>

(* C13. The WeakChecksums message the updater session sends after          *)
(* connecting carries the non-overlapping weak checksums of its file: one  *)
(* value per block at offsets 0, B, 2B, ..., ceil(N/B) values for a file   *)
(* of N bytes, and not one value per byte offset.                          *)
BlockChecksums(buf, bs, m) ==
    [i \in 1..CeilDiv(Len(buf), bs) |->
        WeakOf(buf, (i - 1) * bs, Min(i * bs, Len(buf)) - 1, m)]

C13_UpdaterSendsBlockChecksums ==
    \A i \in DOMAIN enqueued["updater"] :
        enqueued["updater"][i].kind = "WeakChecksums" =>
            enqueued["updater"][i].body =
                BlockChecksums(state["updater"].own_data, block_size, modulus)

(* What the statements about the source session refer to *)
Source == state["source"]
Sent == enqueued["source"]
LastSent == Sent[Len(Sent)]
LastReceived == handed["source"][Len(handed["source"])]
Range(s) == {s[i] : i \in DOMAIN s}

\* the step is a turn of the source session that sent a message of the kind
SourceSends(kind) ==
    /\ Len(enqueued'["source"]) = Len(Sent) + 1
    /\ enqueued'["source"][Len(Sent) + 1].kind = kind

(* C14. When the source session has processed WeakChecksums(W), the index  *)
(* it holds is compiled from the received W: for every i < |W| the list at *)
(* bucket[h16(W[i])][W[i]] contains i * block_size, and the index holds no *)
(* entry that does not come from W.                                        *)
C14_IndexFromReceived ==
    (Sent # << >> /\ session["source"] = "recv") =>
        LET W == Source.remote_weak_checksums
            table == Source.hash_table
        IN  /\ \A i \in DOMAIN W : (i - 1) * block_size \in Range(probe(table, W[i]))
            /\ \A leaf \in Leaves(table) :
                   \A o \in Range(table[leaf[1]][leaf[2]]) :
                       \E i \in DOMAIN W :
                           /\ W[i] = leaf[2]
                           /\ weak_hash(W[i]) = leaf[1]
                           /\ o = (i - 1) * block_size

(* C15. The offsets of a StrongChecksumRequest of the source session hold  *)
(* position o of the probed sequence of weak checksums if and only if the  *)
(* index has a non-empty candidate list for the weak checksum at o (the    *)
(* bucket looked up first, then the 32-bit value); the offsets are         *)
(* strictly ascending, so none occurs twice.                               *)
C15_RequestOffsets ==
    [][SourceSends("StrongChecksumRequest") =>
          LET offsets == enqueued'["source"][Len(Sent) + 1].body
              W == state'["source"].remote_weak_checksums
              table == state'["source"].hash_table
          IN  /\ \A o \in 0..(Len(W) - 1) :
                     o \in Range(offsets) <=> probe(table, W[o + 1]) # << >>
              /\ Range(offsets) \subseteq 0..(Len(W) - 1)
              /\ \A i \in 1..(Len(offsets) - 1) : offsets[i] < offsets[i + 1]]_vars

\* a request that names the second position of the probed sequence and
\* leaves the first out
C15_Witness ==
    /\ Sent # << >>
    /\ LastSent.kind = "StrongChecksumRequest"
    /\ LastSent.body = <<1>>
    /\ Len(Source.remote_weak_checksums) = 2

(* C16. For a StrongChecksums response R, the Matches message of the       *)
(* source session holds a pair of index-side block offset x and requested  *)
(* offset y if and only if (y, s) is in R, x is in the index's candidate   *)
(* list for the weak checksum at y, and the strong hash of the block that  *)
(* starts at x in the source's own file equals s.                          *)
ConfirmedPairs(R, st, bs) ==
    {pair \in (0..Len(st.own_data)) \X {R[i][1] : i \in DOMAIN R} :
        \E i \in DOMAIN R :
            /\ R[i][1] = pair[2]
            /\ pair[2] < Len(st.remote_weak_checksums)
            /\ pair[1] \in Range(probe(st.hash_table,
                                       st.remote_weak_checksums[pair[2] + 1]))
            /\ pair[1] + bs <= Len(st.own_data)
            /\ hash(Slice(st.own_data, pair[1], pair[1] + bs)) = R[i][2]}

C16_MatchesConfirmed ==
    [][SourceSends("Matches") =>
          LET R == handed'["source"][Len(handed'["source"])].body
          IN  Range(enqueued'["source"][Len(Sent) + 1].body) =
                  ConfirmedPairs(R, Source, block_size)]_vars

\* the source has confirmed a pair for a response of the updater and has
\* confirmed none for a response whose digests match no block
C16_Witness ==
    /\ Len(Sent) = 3
    /\ Sent[2].kind = "Matches" /\ Sent[2].body # << >>
    /\ Sent[3].kind = "Matches" /\ Sent[3].body = << >>
    /\ LastReceived.kind = "StrongChecksums" /\ LastReceived.body # << >>

(* C17. During strong verification a candidate that is the partial tail    *)
(* block of the source's file is hashed over its actual length:            *)
(* process_strong_hash_response never takes a byte range that ends past    *)
(* the end of the file, so it never fails on an out-of-range slice.        *)
C17_NoSliceOutOfRange == session["source"] # "panicked_slice"

(* C18. On receiving StrongChecksumRequest(offsets) the updater session    *)
(* puts exactly one StrongChecksums message on its outbound queue, whose   *)
(* list has exactly one entry (u, hash) for each requested offset u, in    *)
(* the order of the request, hash being the strong checksum of the         *)
(* updater's own block that starts at u; nothing else of its state changes. *)
\* the block of the file that starts at offset u: block_size bytes, or what
\* is left of the file
BlockAt(own_data, u, bs) ==
    IF u >= Len(own_data) THEN << >>
    ELSE SubSeq(own_data, u + 1, Min(u + bs, Len(own_data)))

UpdaterReceives(kind) ==
    /\ Len(handed'["updater"]) = Len(handed["updater"]) + 1
    /\ handed'["updater"][Len(handed'["updater"])].kind = kind

C18_StrongChecksumsAnswer ==
    [][UpdaterReceives("StrongChecksumRequest") =>
          LET offsets == handed'["updater"][Len(handed'["updater"])].body
              own_data == state["updater"].own_data
          IN  /\ enqueued'["updater"] =
                     Append(enqueued["updater"],
                            Message("StrongChecksums",
                                    [i \in DOMAIN offsets |->
                                        <<offsets[i],
                                          hash(BlockAt(own_data, offsets[i], block_size))>>]))
              /\ state' = state
              /\ session' = session]_vars

\* the updater has answered a request for its tail block and then its first
\* block, in the order of the request
C18_Witness ==
    /\ enqueued["updater"] # << >>
    /\ LET last == enqueued["updater"][Len(enqueued["updater"])]
       IN  /\ last.kind = "StrongChecksums"
           /\ Len(last.body) = 2
           /\ last.body[1] = <<2, hash(<<1>>)>>
           /\ last.body[2] = <<0, hash(<<0, 1>>)>>

(* C19. The source session puts messages on its outbound queue only as     *)
(* replies: exactly one StrongChecksumRequest for each WeakChecksums it    *)
(* has processed with success and exactly one Matches for each             *)
(* StrongChecksums it has processed, in the order of their causes;         *)
(* receiving FileName only records the path and sends nothing.             *)
\* the messages whose turn the session has completed
Completed ==
    IF session["source"] = "recv" THEN handed["source"]
    ELSE SubSeq(handed["source"], 1, Len(handed["source"]) - 1)

ReplyKind(message) ==
    IF message.kind = "WeakChecksums" THEN "StrongChecksumRequest" ELSE "Matches"

ExpectedReplyKinds ==
    LET causes == SelectSeq(Completed,
                            LAMBDA message :
                                message.kind \in {"WeakChecksums", "StrongChecksums"})
    IN  [i \in DOMAIN causes |-> ReplyKind(causes[i])]

SourceReceives(kind) ==
    /\ Len(handed'["source"]) = Len(handed["source"]) + 1
    /\ handed'["source"][Len(handed'["source"])].kind = kind

C19_SourceOnlyReplies ==
    /\ []([i \in DOMAIN Sent |-> Sent[i].kind] = ExpectedReplyKinds)
    /\ [][SourceReceives("FileName") =>
             /\ state'["source"] =
                    [Source EXCEPT !.file_path =
                                       handed'["source"][Len(handed'["source"])].body[1]]
             /\ enqueued' = enqueued
             /\ session' = session]_vars

\* the source has answered WeakChecksums and StrongChecksums, and a later
\* FileName has changed the path without a reply
C19_Witness ==
    /\ Len(Sent) = 2
    /\ Sent[1].kind = "StrongChecksumRequest"
    /\ Sent[2].kind = "Matches"
    /\ LastReceived.kind = "FileName"
    /\ Source.file_path = "g"

(* C20. Once the source session has sent Matches, every further inbound    *)
(* message of any kind, a second FileName, WeakChecksums or                *)
(* StrongChecksums included, is ignored: it changes nothing of the         *)
(* session's state and causes no outbound message.                         *)
MatchesSent == \E i \in DOMAIN Sent : Sent[i].kind = "Matches"

C20_IgnoredAfterMatches ==
    [][MatchesSent =>
          /\ state'["source"] = Source
          /\ enqueued'["source"] = Sent
          /\ session'["source"] = session["source"]]_vars

(* C21. In every session each kind of message travels only in the          *)
(* direction the protocol gives it: FileName, WeakChecksums and            *)
(* StrongChecksums are sent only by the updater; StrongChecksumRequest,    *)
(* Matches and Instructions are sent only by the source.                   *)
KindsOf(e) ==
    IF e = "updater" THEN {"FileName", "WeakChecksums", "StrongChecksums"}
    ELSE {"StrongChecksumRequest", "Matches", "Instructions"}

C21_Directions ==
    \A e \in Ends : \A i \in DOMAIN enqueued[e] : enqueued[e][i].kind \in KindsOf(e)

(* C22. The instruction list built from the Matches pairs tiles the file   *)
(* it rebuilds exactly: every byte position of [0, file length) lies in    *)
(* the target range of exactly one instruction (offset of NewData,         *)
(* new_offset of Replicate), no range is empty or ends past the file;      *)
(* this for every file length, the non-zero ones included.  The file is    *)
(* the one held by the session that builds the list.                       *)
TargetStart(instruction) ==
    IF instruction.kind = "NewData" THEN instruction.offset ELSE instruction.new_offset

Covering(instructions, position) ==
    {i \in DOMAIN instructions :
        /\ TargetStart(instructions[i]) <= position
        /\ position < TargetStart(instructions[i]) + instructions[i].length}

Tiles(instructions, length) ==
    /\ \A position \in 0..(length - 1) : Cardinality(Covering(instructions, position)) = 1
    /\ \A i \in DOMAIN instructions :
           /\ instructions[i].length > 0
           /\ TargetStart(instructions[i]) + instructions[i].length <= length

C22_InstructionsTile ==
    \A k \in DOMAIN enqueued["updater"] :
        enqueued["updater"][k].kind = "Instructions"
            => Tiles(enqueued["updater"][k].body, Len(state["updater"].own_data))

(* C23. If the updater's file and the source's file are identical and      *)
(* their length is a positive multiple of block_size, then after the       *)
(* exchange FileName, WeakChecksums, StrongChecksumRequest,                *)
(* StrongChecksums the source sends a Matches list that contains the pair  *)
(* (i * block_size, i * block_size) for every block index i.               *)
IdenticalFiles ==
    /\ disk["source"] # << >>
    /\ disk["source"] = disk["updater"]
    /\ Len(disk["source"][1]) > 0
    /\ Len(disk["source"][1]) % block_size = 0

\* the source has received what the updater's code sends for the file
FourExchanges ==
    handed["source"] =
        <<Message("FileName", <<"f">>),
          Message("WeakChecksums", PeerWeakChecksums),
          Message("StrongChecksums",
                  strong_checksums_result(block_size, LastRequest, disk["updater"][1]))>>

C23_IdenticalFilesMatch ==
    (IdenticalFiles /\ FourExchanges) =>
        /\ Len(Sent) = 2
        /\ Sent[1].kind = "StrongChecksumRequest"
        /\ Sent[2].kind = "Matches"
        /\ \A i \in 0..((Len(disk["source"][1]) \div block_size) - 1) :
               <<i * block_size, i * block_size>> \in Range(Sent[2].body)

\* two identical files of two blocks, and both blocks matched
C23_Witness ==
    /\ IdenticalFiles
    /\ FourExchanges
    /\ Len(disk["source"][1]) = 2 * block_size
    /\ Len(Sent) = 2
    /\ {<<0, 0>>, <<block_size, block_size>>} \subseteq Range(Sent[2].body)

\* a step of the program of either endpoint (no endpoint is terminated from outside)
ProgramStep ==
    \/ \E e \in Ends : ConnectionSend(e)
    \/ \E e \in Ends : ReadBuf(e)
    \/ \E e \in Ends : ReadEof(e)
    \/ \E e \in Ends : Deliver(e)
    \/ UpdaterSendFileName
    \/ UpdaterSendWeakChecksums
    \/ UpdaterRecv
    \/ SourceRecv
    \/ \E e \in Ends : RecvNone(e)
    \/ Join

\* both files are readable and no endpoint has been terminated from outside
FaultFree ==
    \A e \in Ends :
        /\ readable[e]
        /\ connection[e] # "aborted"
        /\ session[e] # "aborted"

MatchesDelivered == \E i \in DOMAIN handed["updater"] : handed["updater"][i].kind = "Matches"

(* C24. Every fault-free session (both files readable, no transport error) *)
(* terminates cleanly: once Matches has been delivered, both session       *)
(* actors and both connection loops finish without error and the           *)
(* connection is closed; no endpoint waits forever.  So a fault-free state *)
(* after Matches in which the program can take no step is one in which     *)
(* all four have finished without error.                                   *)
C24_TerminatesCleanly ==
    (FaultFree /\ MatchesDelivered /\ ~ENABLED ProgramStep) =>
        \A e \in Ends : session[e] = "ok" /\ connection[e] = "ok"

(* C25. If the updater fails to load its file, or fails to put FileName or *)
(* WeakChecksums on its outbound queue, the failure aborts the updater     *)
(* session: run ends with an error and does not go on to wait for inbound  *)
(* messages.  So an updater session that is past its two sends and has not *)
(* ended with an error has loaded its file and has enqueued both messages. *)
PastInitialSends == session["updater"] \in {"recv", "ok", "err"}

C25_FailureAborts ==
    (PastInitialSends /\ session["updater"] # "err") =>
        /\ readable["updater"]
        /\ Len(enqueued["updater"]) >= 2
        /\ enqueued["updater"][1].kind = "FileName"
        /\ enqueued["updater"][2].kind = "WeakChecksums"

NoEndpointTerminated ==
    \A e \in Ends : connection[e] # "aborted" /\ session[e] # "aborted"

(* C26. If the source cannot read the file named by FileName when it       *)
(* processes WeakChecksums (WeakChecksums before any FileName included),   *)
(* its session ends with an I/O error without sending                      *)
(* StrongChecksumRequest, and the connection is terminated: the source's   *)
(* connection loop also ends, without depending on the peer sending more   *)
(* data or closing the stream.  So when the session has ended this way and *)
(* the program can take no further step, the source's connection loop has  *)
(* ended.                                                                  *)
C26_ReadErrorEndsConnection ==
    (~readable["source"] /\ session["source"] = "err" /\ NoEndpointTerminated) =>
        /\ \A i \in DOMAIN enqueued["source"] :
               enqueued["source"][i].kind # "StrongChecksumRequest"
        /\ ~ENABLED ProgramStep => ~Running("source")

(* C27. Once the session actor of an endpoint has ended, the next message  *)
(* its connection loop decodes cannot be delivered: the loop hands nothing *)
(* over and the step that handles the decoded message ends Connection::run *)
(* with a send error.  Symmetrically a session whose connection loop has   *)
(* ended enqueues nothing more, a turn of its loop that has a message to   *)
(* send ends it with the send error, and the session eventually ends.      *)
(* Neither actor continues the protocol alone.                             *)
Decoded(e) == from_slice(buffer[e]) # << >>

ReplyOf(e, message) == IF e = "updater" THEN UpdaterReply(message) ELSE SourceReply(message)

SourceError ==
    \/ session["source"] = "err"
    \/ connection["source"] \in {"err_reset", "err_io", "err_send"}

(* C28. An error in a connection, in its I/O loop or in its session, never *)
(* terminates the source daemon: the error is logged and the accept loop   *)
(* eventually returns to accepting the next connection.  So when an error  *)
(* has occurred and the program can take no further step, the loop of main *)
(* is back at accept.                                                      *)
C28_DaemonAcceptsAgain ==
    (SourceError /\ NoEndpointTerminated /\ ~ENABLED ProgramStep) => main_loop = "accept"

(* C29. After the updater has enqueued WeakChecksums, its stored weak       *)
(* checksums and the bytes it has loaded from its file are never written    *)
(* again: handling any inbound message leaves them unchanged, and           *)
(* WeakChecksums is sent at most once per session.                          *)
WeakChecksumsEnqueued ==
    {i \in DOMAIN enqueued["updater"] : enqueued["updater"][i].kind = "WeakChecksums"}

C29_ChecksumsWrittenOnce ==
    /\ [](Cardinality(WeakChecksumsEnqueued) <= 1)
    /\ [][WeakChecksumsEnqueued # {} =>
             /\ state'["updater"].weak_checksums = state["updater"].weak_checksums
             /\ state'["updater"].own_data = state["updater"].own_data]_vars

\* the updater has sent the checksums of a file of several bytes and has
\* then answered a request and a match list
C29_Witness ==
    /\ WeakChecksumsEnqueued = {2}
    /\ Len(state["updater"].own_data) > 1
    /\ state["updater"].weak_checksums # << >>
    /\ Len(handed["updater"]) = 2
    /\ Len(enqueued["updater"]) = 4
    /\ enqueued["updater"][3].kind = "StrongChecksums"
    /\ enqueued["updater"][4].kind = "Instructions"

(* C30. In a session between the updater and the source as implemented no  *)
(* one of the four bounded queues (capacity 100 each) ever becomes full:    *)
(* no queue ever holds more than two messages, so no producer blocks on a   *)
(* queue send and the two actors of an endpoint cannot block each other on  *)
(* full queues.                                                             *)
C30_QueuesNeverFull ==
    \A e \in Ends :
        /\ Len(outbound[e]) <= 2
        /\ Len(inbound[e]) <= 2
        /\ 2 < QueueCapacity

\* both messages of the updater have crossed the wire and wait in the
\* source's inbound queue
C30_Witness == Len(inbound["source"]) = 2

\* the (weak, strong) pairs the Matcher was compiled from, in order
CompiledPairs == collect_zip(CheckSum_checksums(modulus, block_size, data))

\* the compiled positions whose pair equals the incoming pair at position i
EqualCompiled(i) ==
    {j \in 0..(Len(CompiledPairs) - 1) : found.hashes_by_block[i + 1] = CompiledPairs[j + 1]}

Least(S) == CHOOSE x \in S : \A y \in S : x <= y

(* C31. For a Matcher compiled from a buffer and any sequence of incoming  *)
(* (weak, strong) pairs, find_matches returns (i, j) only if the i-th      *)
(* incoming pair equals the j-th compiled pair; for every incoming         *)
(* position i that equals a compiled pair it returns exactly one pair      *)
(* (i, j), with j the smallest such position; the result is in strictly    *)
(* ascending order of i, and no lookup indexes outside the compiled        *)
(* strong-hash table.                                                      *)
C31_FindMatches ==
    (found.called /\ found.compiled) =>
        /\ ~found.panicked
        /\ \A k \in DOMAIN found.matches :
               /\ found.matches[k][1] \in 0..(Len(found.hashes_by_block) - 1)
               /\ found.matches[k][2] \in EqualCompiled(found.matches[k][1])
        /\ \A i \in 0..(Len(found.hashes_by_block) - 1) :
               EqualCompiled(i) # {} =>
                   /\ Cardinality({k \in DOMAIN found.matches : found.matches[k][1] = i}) = 1
                   /\ <<i, Least(EqualCompiled(i))>> \in Range(found.matches)
        /\ \A k \in 1..(Len(found.matches) - 1) :
               found.matches[k][1] < found.matches[k + 1][1]

\* of two incoming pairs one is matched: three compiled positions share its
\* weak checksum, the first of them has another strong hash, and of the
\* several that equal the pair the smallest is returned
C31_Witness ==
    /\ found.called
    /\ found.compiled
    /\ Len(found.hashes_by_block) = 2
    /\ Len(found.matches) = 1
    /\ found.matches[1][2] > 0
    /\ Cardinality(EqualCompiled(found.matches[1][1])) > 1
    /\ \E w \in DOMAIN matcher.hash_table :
           \E c \in DOMAIN matcher.hash_table[w] :
               /\ Len(matcher.hash_table[w][c]) > 2
               /\ found.hashes_by_block[found.matches[1][1] + 1][1] = c
               /\ matcher.hash_table[w][c][1] < found.matches[1][2]

(* C32. For every buffer the composite rolling stream (CheckSum::checksums) *)
(* has as many elements as the weak rolling stream, and its k-th element    *)
(* pairs the weak checksum and the strong hash of the window that starts    *)
(* at offset k; likewise the composite non-overlapping stream has one       *)
(* (weak, strong) pair per block.  The rolling stream is the one compile    *)
(* has collected.                                                           *)
C32_CompositeStreams ==
    matcher.compiled =>
        LET weak == collect(WeakCheckSum_checksums(modulus, block_size, data))
            blocks == collect_zip_non_overlapping(
                          CheckSum_checksums_non_overlapping(modulus, block_size, data))
            weak_blocks == collect_non_overlapping(
                               WeakCheckSum_checksums_non_overlapping(modulus, block_size, data))
        IN  /\ Len(matcher.strong_hashes) = Len(weak)
            /\ Len(CompiledPairs) = Len(weak)
            /\ \A k \in DOMAIN CompiledPairs :
                   CompiledPairs[k] =
                       <<weak[k], hash(Slice(data, k - 1, Min(k - 1 + block_size, Len(data))))>>
            /\ Len(blocks) = CeilDiv(Len(data), block_size)
            /\ \A k \in DOMAIN blocks :
                   blocks[k] =
                       <<weak_blocks[k],
                         hash(Slice(data, (k - 1) * block_size,
                                    Min(k * block_size, Len(data))))>>

LookupFailures == {"panicked_index", "panicked_unwrap"}

\* the StrongChecksums lists of at most two entries whose offsets are among
\* those of the last request
ResponsesToLastRequest ==
    SeqsUpTo({<<LastRequest[i], WrongDigest>> : i \in DOMAIN LastRequest}, 2)

(* C33. For every StrongChecksums message whose offsets are among the      *)
(* offsets of the StrongChecksumRequest the source has sent in the session, *)
(* the lookups of process_strong_hash_response succeed: each offset is a    *)
(* position of the stored remote weak checksums and its weak checksum has   *)
(* a bucket and a leaf list in the index, in whatever order the messages    *)
(* of the updater arrive.                                                   *)
C33_LookupsSucceed ==
    /\ session["source"] \notin LookupFailures
    /\ session["source"] = "recv" =>
           /\ \A i \in DOMAIN LastRequest :
                  /\ LastRequest[i] < Len(Source.remote_weak_checksums)
                  /\ probe(Source.hash_table,
                           Source.remote_weak_checksums[LastRequest[i] + 1]) # << >>
           /\ \A R \in ResponsesToLastRequest :
                  process_strong_hash_response(block_size, Source, R).panic
                      \notin LookupFailures

\* the source has requested the second of two positions only, has looked it
\* up for a response and has sent Matches
C33_Witness ==
    /\ session["source"] = "recv"
    /\ LastRequest = <<1>>
    /\ Len(Source.remote_weak_checksums) = 2
    /\ LastReceived.kind = "StrongChecksums"
    /\ LastReceived.body # << >>
    /\ LastSent.kind = "Matches"


\* C34: the source daemon serves one connection at a time.  Whenever
\* listener.accept() returns a further connection, the task of
\* Connection::run and the task of SingleConnection::run of the connection
\* before it have both finished, and main has passed join!.  The accepted
\* connection starts from ConnectionState::default(), with empty queues, an
\* empty stream and read buffer, and a session waiting in recv(): no file
\* path, file contents, checksums or index of an earlier connection remain.
C34_OneConnectionAtATime ==
    [][accepted' # accepted =>
           /\ accepted' = accepted + 1
           /\ main_loop = "accept"
           /\ connection["source"] \in ConnectionFinished
           /\ session["source"] \in SessionFinished
           /\ state'["source"] = SourceState
           /\ session'["source"] = "recv"
           /\ connection'["source"] = "running"
           /\ outbound'["source"] = << >>
           /\ inbound'["source"] = << >>
           /\ buffer'["source"] = << >>
           /\ wire' = [e \in Ends |-> << >>]]_vars

\* the daemon serves its second connection, whose session has built an index
\* of its own, after a first connection has been served and joined
C34_Witness ==
    /\ accepted = 2
    /\ main_loop = "join"
    /\ session["source"] = "recv"
    /\ Source.hash_table # SourceState.hash_table
    /\ Len(handed["source"]) = 2

=============================================================================
